---- MODULE Spec2Model ----
(***************************************************************************)
(* State-machine model of the NFL prop agent's scanning engine             *)
(* (agent_core.py): the HTTP layer with its usage ledger, the budgeted     *)
(* event loop of scan_edges, best-offer selection and stake sizing.        *)
(*                                                                         *)
(* Conventions.  A Python str is a sequence of one-character strings.      *)
(* Lines, means and standard deviations are integers in tenths; American   *)
(* odds are integers; probabilities and EVs are integers in millionths     *)
(* (the stored, rounded columns in ten-thousandths); money is in cents.    *)
(***************************************************************************)
EXTENDS Integers, Sequences, FiniteSets, TLC

VARIABLES
    provider,      \* the odds provider's data: the events it lists and the odds JSON per event id
    faults,        \* how many more requests the provider may fail (error status or no response)
    pc,            \* position of scan_edges: "http", "budget", "loop", "event", "rows", "finish", "done", "raised"
    cfg,           \* the configuration mapping handed to scan_edges
    max_calls,     \* the credit ceiling argument of scan_edges
    no_team_filter,\* os.environ NO_TEAM_FILTER == "1"
    projections,   \* the caller's projections table
    call,          \* the running http_get_json invocation: endpoint, params and loop index
    calls,         \* history of http_get_json invocations with the status of every request sent
    ledger,        \* rows of the usage ledger CSV (CALL_LOG_PATH), oldest first
    events,        \* JSON returned by list_upcoming_events
    event_map,     \* events still to visit, keyed by id in insertion order
    markets_list,  \* the market list in use (trimmed by the budget step)
    ev,            \* the event being processed and its odds JSON
    df_ev,         \* the projection rows scanned for the current event
    ri,            \* index of the next row of df_ev
    diag,          \* the diagnostics record
    rows,          \* edge rows emitted so far
    df,            \* the table returned by scan_edges
    error,         \* the exception that ended the scan, "" when none
    offer_in,      \* best-offer harness: the odds JSON under construction
    offer_q,       \* best-offer harness: the last query and its result
    stake_in,      \* staking harness: the band list under construction
    stake_q,       \* staking harness: the last EV sized and its result
    alert,         \* alert_edges: position, webhook, message, POST attempts, failure file
    cli,           \* main of agent_cli: position, what it found, exit code
    fs,            \* push_csv: position, rows read, the open batch, committed batches
    lib            \* a call of a library function: its arguments and its result

scanVars == <<provider, faults, pc, cfg, max_calls, no_team_filter, projections, call, calls, ledger,
              events, event_map, markets_list, ev, df_ev, ri, diag, rows, df, error>>
offerVars == <<offer_in, offer_q>>
stakeVars == <<stake_in, stake_q>>
toolVars == <<alert, cli, fs, lib>>
vars == <<scanVars, offerVars, stakeVars, toolVars>>

(***************************************************************************)
(* Generic helpers                                                         *)
(***************************************************************************)
Min(a, b) == IF a <= b THEN a ELSE b
Max(a, b) == IF a >= b THEN a ELSE b
Abs(a) == IF a < 0 THEN -a ELSE a
Range(s) == {s[i] : i \in 1..Len(s)}
\* Python slice s[:n]
Take(s, n) == SubSeq(s, 1, Min(Max(n, 0), Len(s)))
SeqsUpTo(S, n) == UNION {[1..k -> S] : k \in 0..n}

(***************************************************************************)
(* Python str operations on sequences of characters                        *)
(***************************************************************************)
LowerChars == <<"a","b","c","d","e","f","g","h","i","j","k","l","m",
                "n","o","p","q","r","s","t","u","v","w","x","y","z">>
UpperChars == <<"A","B","C","D","E","F","G","H","I","J","K","L","M",
                "N","O","P","Q","R","S","T","U","V","W","X","Y","Z">>
Digits == {"0","1","2","3","4","5","6","7","8","9"}

IndexIn(c, t) == CHOOSE i \in 1..Len(t) : t[i] = c
lower_char(c) == IF c \in Range(UpperChars) THEN LowerChars[IndexIn(c, UpperChars)] ELSE c
upper_char(c) == IF c \in Range(LowerChars) THEN UpperChars[IndexIn(c, LowerChars)] ELSE c
lower(s) == [i \in 1..Len(s) |-> lower_char(s[i])]
upper(s) == [i \in 1..Len(s) |-> upper_char(s[i])]

RECURSIVE lstrip(_)
lstrip(s) == IF s # <<>> /\ Head(s) = " " THEN lstrip(Tail(s)) ELSE s
RECURSIVE rstrip(_)
rstrip(s) == IF s # <<>> /\ s[Len(s)] = " " THEN rstrip(SubSeq(s, 1, Len(s) - 1)) ELSE s
strip(s) == rstrip(lstrip(s))

\* re.sub(r"[<chars>]", "", s)
RemoveChars(s, chars) == SelectSeq(s, LAMBDA c : c \notin chars)
\* re.sub(r"[^<chars>]", "", s)
KeepChars(s, chars) == SelectSeq(s, LAMBDA c : c \in chars)

RECURSIVE collapse_ws(_)
\* re.sub(r"\s+", " ", s)
collapse_ws(s) ==
    IF Len(s) < 2 THEN s
    ELSE IF s[1] = " " /\ s[2] = " " THEN collapse_ws(Tail(s))
    ELSE <<s[1]>> \o collapse_ws(Tail(s))

\* a in b  (substring test)
Contains(b, a) == \E i \in 1..(Len(b) - Len(a) + 1) : SubSeq(b, i, i + Len(a) - 1) = a

RECURSIVE split_ws(_, _)
\* str.split(): tokens separated by runs of whitespace; cur is the token being read
split_ws(s, cur) ==
    IF s = <<>> THEN (IF cur = <<>> THEN <<>> ELSE <<cur>>)
    ELSE IF Head(s) = " "
         THEN (IF cur = <<>> THEN <<>> ELSE <<cur>>) \o split_ws(Tail(s), <<>>)
         ELSE split_ws(Tail(s), Append(cur, Head(s)))

\* len(s.split(","))
split_comma_count(s) == Cardinality({i \in 1..Len(s) : s[i] = ","}) + 1

(***************************************************************************)
(* Bounds of the model                                                     *)
(***************************************************************************)
MaxEvents == 2
MaxCalls == 3
MaxFaults == 3

(***************************************************************************)
(* HTTP layer and usage ledger                                             *)
(***************************************************************************)
\* session.get raised (timeout, connection error): no response object exists
NoResponse == 0
\* status codes a response can carry: a success, a client error, a server error
Statuses == {200, 404, 503}
\* for attempt in range(3)
MaxAttempts == 3

\* a request the provider fails: no response, or an error status
IsFault(status) == status = NoResponse \/ status >= 400
\* max_calls as the command line passes it
CliMaxCalls == 1000

\* a retry policy that also re-requests after a client error
IsServerErrorAnyError(status) == 400 <= status /\ status < 600
\* if 500 <= resp.status_code < 600: sleep and continue
IsServerError(status) == 500 <= status /\ status < 600
\* requests' Response.raise_for_status raises HTTPError for 4xx and 5xx
raise_for_status(status) == 400 <= status /\ status < 600

\* a ledger writer that records successful responses only
_log_usage_success_only(log, status, c) ==
    IF status >= 400 THEN log
    ELSE Append(log, [endpoint |-> [kind |-> c.kind, event_id |-> c.event_id, markets |-> c.markets],
                      tag |-> c.tag, status |-> status])

\* the row _log_usage appends to the ledger: endpoint (path and query), tag and
\* status; the timestamp and the three usage headers are opaque values
_log_usage(log, status, c) ==
    Append(log, [endpoint |-> [kind |-> c.kind, event_id |-> c.event_id, markets |-> c.markets],
                 tag |-> c.tag, status |-> status])

\* a call of http_get_json entering its loop: url, params, tag and the loop index
NewCall(kind, event_id, markets, tag) ==
    [kind |-> kind, event_id |-> event_id, markets |-> markets, tag |-> tag, attempt |-> 0]
\* the history entry of a call: the status of every request it sent and how it ended
NewCallRecord(c) ==
    [kind |-> c.kind, event_id |-> c.event_id, markets |-> c.markets,
     statuses |-> <<>>, result |-> "pending"]

\* list_upcoming_events: GET .../events, tag "events_free"
list_upcoming_events ==
    NewCall("events", "", <<>>, [label |-> "events_free", event_id |-> "", markets |-> <<>>])
\* get_event_odds: GET .../events/{event_id}/odds with the comma-joined markets
get_event_odds(event_id, markets) ==
    NewCall("odds", event_id, markets, [label |-> "event", event_id |-> event_id, markets |-> markets])

(***************************************************************************)
(* Python values: a cell of a table or a JSON scalar is a tagged record    *)
(***************************************************************************)
StrCell(s) == [k |-> "str", s |-> s, n |-> 0]
NumCell(n) == [k |-> "num", s |-> <<>>, n |-> n]
NaN == [k |-> "nan", s |-> <<>>, n |-> 0]
None == [k |-> "none", s |-> <<>>, n |-> 0]
\* bool(x): None, "" and 0 are falsy; a float NaN is truthy
Truthy(x) == (x.k = "str" /\ x.s # <<>>) \/ (x.k = "num" /\ x.n # 0) \/ x.k = "nan"
\* a or b
Or(a, b) == IF Truthy(a) THEN a ELSE b

(***************************************************************************)
(* Name & market helpers                                                   *)
(***************************************************************************)
\* normalize_name on a str: lowercase, strip, drop . , ' and collapse whitespace
normalize_name(n) == collapse_ws(RemoveChars(strip(lower(n)), {".", ",", "'"}))

DISCRETE_KEYS == {"player_receptions", "player_pass_tds", "player_rush_tds",
                  "player_reception_tds", "player_pass_attempts", "player_pass_completions",
                  "player_interceptions", "player_pass_interceptions", "player_rush_attempts",
                  "player_pass_rush_reception_tds"}
is_discrete_market(market_key) == market_key \in DISCRETE_KEYS

\* the entries of TEAM_ALIASES for the teams of the modelled events
TEAM_ALIASES ==
    <<[canonical |-> <<"K","A","N","S","A","S","C","I","T","Y","C","H","I","E","F","S">>,
       aliases |-> <<<<"K","C">>, <<"K","A","N">>, <<"K","A","N","S","A","S"," ","C","I","T","Y">>, <<"K","A","N","S","A","S"," ","C","I","T","Y"," ","C","H","I","E","F","S">>>>],
      [canonical |-> <<"B","U","F","F","A","L","O","B","I","L","L","S">>,
       aliases |-> <<<<"B","U","F">>, <<"B","U","F","F","A","L","O">>, <<"B","U","F","F","A","L","O"," ","B","I","L","L","S">>>>],
      [canonical |-> <<"D","A","L","L","A","S","C","O","W","B","O","Y","S">>,
       aliases |-> <<<<"D","A","L">>, <<"D","A","L","L","A","S">>, <<"D","A","L","L","A","S"," ","C","O","W","B","O","Y","S">>>>]>>

\* re.sub(r"[^A-Z0-9]", "", (name or "").upper())
_clean_team_token(name) == KeepChars(upper(name), Range(UpperChars) \cup Digits)

\* TEAM_CANONICAL_MAP as the set of its (token, canonical) items
TEAM_CANONICAL_MAP ==
    UNION {{<<_clean_team_token(TEAM_ALIASES[i].canonical), TEAM_ALIASES[i].canonical>>}
           \cup {<<_clean_team_token(a), TEAM_ALIASES[i].canonical>> :
                    a \in Range(TEAM_ALIASES[i].aliases)} : i \in 1..Len(TEAM_ALIASES)}

canonical_team(name) ==
    LET token == _clean_team_token(name)
    IN  IF token = <<>> THEN <<>>
        ELSE IF \E p \in TEAM_CANONICAL_MAP : p[1] = token
             THEN (CHOOSE p \in TEAM_CANONICAL_MAP : p[1] = token)[2]
             ELSE token

\* sanity_line_ok: the line is a number and float(line) >= 0.0
sanity_line_ok(market_key, line) == line.k = "num" /\ line.n >= 0

(***************************************************************************)
(* Best offer                                                              *)
(***************************************************************************)
\* any(x == t or x in t or t in x for t in dt)
AnyTokenOverlap(x, dt) ==
    \E i \in 1..Len(dt) : x = dt[i] \/ Contains(dt[i], x) \/ Contains(x, dt[i])

_player_name_match(desc, player_norm) ==
    IF desc = <<>> THEN FALSE
    ELSE LET dn == normalize_name(desc)
             pt == split_ws(player_norm, <<>>)
             dt == split_ws(dn, <<>>)
             dn_compact == RemoveChars(dn, {" "})
         IN  IF dn = player_norm THEN TRUE
             ELSE IF pt = <<>> THEN FALSE
             ELSE LET last == pt[Len(pt)]
                      last_ok == AnyTokenOverlap(last, dt) \/ Contains(dn_compact, last)
                  IN  IF Len(pt) >= 2
                      THEN LET first == pt[1]
                               initials == {dt[i][1] : i \in 1..Len(dt)}
                               combo == <<first[1]>> \o last
                               first_ok == \/ first \in Range(dt)
                                           \/ first[1] \in initials
                                           \/ Contains(dn_compact, combo)
                           IN  last_ok /\ first_ok
                      ELSE AnyTokenOverlap(pt[1], dt)

\* best_offer_for_player returns None or (book, line, price)
NoOffer == [found |-> FALSE, book |-> "", line |-> 0, price |-> 0]
Offer(bk, line, price) == [found |-> TRUE, book |-> bk, line |-> line, price |-> price]

\* the first truthy of participant, player, player_name, name; else description or ""
outcome_label(outc) ==
    LET named == Or(outc.participant, Or(outc.player, Or(outc.player_name, outc.name)))
        pstr == IF Truthy(named) THEN named ELSE Or(outc.description, StrCell(<<>>))
    IN  pstr.s

\* one outcome of _search's innermost loop: the candidate it yields, if any
cand_of(bk, outc, market_key, player_norm) ==
    IF ~_player_name_match(outcome_label(outc), player_norm) THEN <<>>
    ELSE IF outc.point.k = "none" \/ outc.price.k = "none" THEN <<>>
    ELSE IF outc.point.k # "num" \/ outc.price.k # "num" THEN <<>>
    ELSE IF ~sanity_line_ok(market_key, outc.point) THEN <<>>
    ELSE <<Offer(bk, outc.point.n, outc.price.n)>>

RECURSIVE cands_outcomes(_, _, _, _)
cands_outcomes(bk, outcomes, market_key, player_norm) ==
    IF outcomes = <<>> THEN <<>>
    ELSE cand_of(bk, Head(outcomes), market_key, player_norm)
         \o cands_outcomes(bk, Tail(outcomes), market_key, player_norm)

RECURSIVE cands_markets(_, _, _, _)
cands_markets(bk, markets, market_key, player_norm) ==
    IF markets = <<>> THEN <<>>
    ELSE (IF Head(markets).key # market_key THEN <<>>
          ELSE cands_outcomes(bk, Head(markets).outcomes, market_key, player_norm))
         \o cands_markets(bk, Tail(markets), market_key, player_norm)

\* a search that never restricts the books
BookAllowedAlways(allowed_books, bk) == TRUE

\* allowed_books: [is_none, books]; a bookmaker is skipped when the set is given,
\* non-empty and does not hold its key
BookAllowed(allowed_books, bk) ==
    ~(~allowed_books.is_none /\ allowed_books.books # {} /\ bk \notin allowed_books.books)

RECURSIVE cands_bookmakers(_, _, _, _)
\* the candidates of _search in the order its three nested loops meet them
cands_bookmakers(bookmakers, allowed_books, market_key, player_norm) ==
    IF bookmakers = <<>> THEN <<>>
    ELSE (IF ~BookAllowed(allowed_books, Head(bookmakers).key) THEN <<>>
          ELSE cands_markets(Head(bookmakers).key, Head(bookmakers).markets,
                             market_key, player_norm))
         \o cands_bookmakers(Tail(bookmakers), allowed_books, market_key, player_norm)

\* a comparison that breaks ties on the lower price
BetterLowerPrice(side, cand, best_local) ==
    IF side = "OVER"
    THEN cand.line < best_local.line
         \/ (cand.line = best_local.line /\ cand.price < best_local.price)
    ELSE cand.line > best_local.line
         \/ (cand.line = best_local.line /\ cand.price < best_local.price)

\* whether cand replaces best_local
Better(side, cand, best_local) ==
    IF side = "OVER"
    THEN cand.line < best_local.line
         \/ (cand.line = best_local.line /\ cand.price > best_local.price)
    ELSE cand.line > best_local.line
         \/ (cand.line = best_local.line /\ cand.price > best_local.price)

RECURSIVE pick_best(_, _, _)
pick_best(cands, side, best_local) ==
    IF cands = <<>> THEN best_local
    ELSE pick_best(Tail(cands), side,
                   IF ~best_local.found THEN Head(cands)
                   ELSE IF Better(side, Head(cands), best_local) THEN Head(cands)
                   ELSE best_local)

_search(ev_json, allowed_books, market_key, side, player_norm) ==
    pick_best(cands_bookmakers(ev_json.bookmakers, allowed_books, market_key, player_norm),
              side, NoOffer)

\* player_name is a str here; scan_edges reaches normalize_name with what the row holds
best_offer_for_player(ev_json, player_name, market_key, side, target_books) ==
    LET player_norm == normalize_name(player_name)
        best == _search(ev_json, [is_none |-> target_books = {}, books |-> target_books],
                        market_key, side, player_norm)
    IN  IF ~best.found /\ target_books # {}
        THEN _search(ev_json, [is_none |-> TRUE, books |-> {}], market_key, side, player_norm)
        ELSE best

(***************************************************************************)
(* Odds & probability helpers (fixed point)                                *)
(***************************************************************************)
Million == 1000 * 1000

\* round(x, ndigits) of a quotient n/d, d > 0: to nearest, ties to even
RoundHalfEven(n, d) ==
    LET q == n \div d
        r == n % d
    IN  IF 2 * r < d THEN q
        ELSE IF 2 * r > d THEN q + 1
        ELSE IF q % 2 = 0 THEN q ELSE q + 1

RECURSIVE isqrt_between(_, _, _)
\* the greatest k in lo..hi with k*k <= n (bisection)
isqrt_between(n, lo, hi) ==
    IF lo >= hi THEN lo
    ELSE LET mid == (lo + hi + 1) \div 2
         IN  IF mid * mid <= n THEN isqrt_between(n, mid, hi)
             ELSE isqrt_between(n, lo, mid - 1)
\* math.sqrt, floored
isqrt(n) == isqrt_between(n, 0, n)

\* 0.5 * (1 + erf(z / sqrt(2))) in millionths at the points <<x - mu in tenths,
\* sd in hundredths>> the bounded inputs reach
NormalCdfPoints ==
    {<<-2495, 100, 0>>, <<-2490, 100, 0>>, <<-2485, 100, 0>>, <<-2480, 100, 0>>,
     <<-2245, 100, 0>>, <<-2240, 100, 0>>, <<-295, 100, 0>>, <<-290, 100, 0>>,
     <<-285, 100, 0>>, <<-280, 100, 0>>, <<-45, 100, 3>>, <<-40, 100, 32>>,
     <<-15, 100, 66807>>, <<-10, 100, 158655>>, <<-5, 100, 308538>>, <<0, 100, 500000>>,
     <<5, 100, 691462>>, <<10, 100, 841345>>, <<235, 100, 1000000>>, <<240, 100, 1000000>>,
     <<2155, 100, 1000000>>, <<2160, 100, 1000000>>, <<2205, 100, 1000000>>, <<2210, 100, 1000000>>,
     <<2435, 100, 1000000>>, <<2440, 100, 1000000>>, <<2485, 100, 1000000>>, <<2490, 100, 1000000>>,
     <<-2495, 2367, 0>>, <<-2490, 2367, 0>>, <<-2485, 2367, 0>>, <<-2480, 2367, 0>>,
     <<-2245, 2367, 0>>, <<-2240, 2367, 0>>, <<-295, 2367, 106327>>, <<-290, 2367, 110254>>,
     <<-285, 2367, 114284>>, <<-280, 2367, 118418>>, <<-45, 2367, 424610>>, <<-40, 2367, 432902>>,
     <<-15, 2367, 474735>>, <<-10, 2367, 483151>>, <<-5, 2367, 491573>>, <<0, 2367, 500000>>,
     <<5, 2367, 508427>>, <<10, 2367, 516849>>, <<235, 2367, 839601>>, <<240, 2367, 844695>>,
     <<2155, 2367, 1000000>>, <<2160, 2367, 1000000>>, <<2205, 2367, 1000000>>, <<2210, 2367, 1000000>>,
     <<2435, 2367, 1000000>>, <<2440, 2367, 1000000>>, <<2485, 2367, 1000000>>, <<2490, 2367, 1000000>>,
     <<-2495, 2500, 0>>, <<-2490, 2500, 0>>, <<-2485, 2500, 0>>, <<-2480, 2500, 0>>,
     <<-2245, 2500, 0>>, <<-2240, 2500, 0>>, <<-295, 2500, 119000>>, <<-290, 2500, 123024>>,
     <<-285, 2500, 127143>>, <<-280, 2500, 131357>>, <<-45, 2500, 428576>>, <<-40, 2500, 436441>>,
     <<-15, 2500, 476078>>, <<-10, 2500, 484047>>, <<-5, 2500, 492022>>, <<0, 2500, 500000>>,
     <<5, 2500, 507978>>, <<10, 2500, 515953>>, <<235, 2500, 826391>>, <<240, 2500, 831472>>,
     <<2155, 2500, 1000000>>, <<2160, 2500, 1000000>>, <<2205, 2500, 1000000>>, <<2210, 2500, 1000000>>,
     <<2435, 2500, 1000000>>, <<2440, 2500, 1000000>>, <<2485, 2500, 1000000>>, <<2490, 2500, 1000000>>,
     <<-2495, 3108, 0>>, <<-2490, 3108, 0>>, <<-2485, 3108, 0>>, <<-2480, 3108, 0>>,
     <<-2245, 3108, 0>>, <<-2240, 3108, 0>>, <<-295, 3108, 171269>>, <<-290, 3108, 175390>>,
     <<-285, 3108, 179574>>, <<-280, 3108, 183821>>, <<-45, 3108, 442439>>, <<-40, 3108, 448797>>,
     <<-15, 3108, 480754>>, <<-10, 3108, 487166>>, <<-5, 3108, 493582>>, <<0, 3108, 500000>>,
     <<5, 3108, 506418>>, <<10, 3108, 512834>>, <<235, 3108, 775209>>, <<240, 3108, 780002>>,
     <<2155, 3108, 1000000>>, <<2160, 3108, 1000000>>, <<2205, 3108, 1000000>>, <<2210, 3108, 1000000>>,
     <<2435, 3108, 1000000>>, <<2440, 3108, 1000000>>, <<2485, 3108, 1000000>>, <<2490, 3108, 1000000>>,
     <<-2495, 5385, 2>>, <<-2490, 5385, 2>>, <<-2485, 5385, 2>>, <<-2480, 5385, 2>>,
     <<-2245, 5385, 15>>, <<-2240, 5385, 16>>, <<-295, 5385, 291908>>, <<-290, 5385, 295105>>,
     <<-285, 5385, 298317>>, <<-280, 5385, 301545>>, <<-45, 5385, 466701>>, <<-40, 5385, 470394>>,
     <<-15, 5385, 488889>>, <<-10, 5385, 492592>>, <<-5, 5385, 496296>>, <<0, 5385, 500000>>,
     <<5, 5385, 503704>>, <<10, 5385, 507408>>, <<235, 5385, 668726>>, <<240, 5385, 672087>>,
     <<2155, 5385, 999969>>, <<2160, 5385, 999970>>, <<2205, 5385, 999979>>, <<2210, 5385, 999980>>,
     <<2435, 5385, 999997>>, <<2440, 5385, 999997>>, <<2485, 5385, 999998>>, <<2490, 5385, 999998>>,
     <<-2495, 6000, 16>>, <<-2490, 6000, 17>>, <<-2485, 6000, 17>>, <<-2480, 6000, 18>>,
     <<-2245, 6000, 91>>, <<-2240, 6000, 94>>, <<-295, 6000, 311478>>, <<-290, 6000, 314430>>,
     <<-285, 6000, 317393>>, <<-280, 6000, 320369>>, <<-45, 6000, 470107>>, <<-40, 6000, 473424>>,
     <<-15, 6000, 490027>>, <<-10, 6000, 493351>>, <<-5, 6000, 496676>>, <<0, 6000, 500000>>,
     <<5, 6000, 503324>>, <<10, 6000, 506649>>, <<235, 6000, 652348>>, <<240, 6000, 655422>>,
     <<2155, 6000, 999836>>, <<2160, 6000, 999841>>, <<2205, 6000, 999881>>, <<2210, 6000, 999885>>,
     <<2435, 6000, 999975>>, <<2440, 6000, 999976>>, <<2485, 6000, 999983>>, <<2490, 6000, 999983>>}
\* normal_cdf(x, mu, sd): x and mu in tenths, sd in hundredths, result in millionths
normal_cdf(x, mu, sd) ==
    IF sd <= 0 THEN (IF x >= mu THEN Million ELSE 0)
    ELSE (CHOOSE p \in NormalCdfPoints : p[1] = x - mu /\ p[2] = sd)[3]

\* prob_over: the continuity correction adds 0.5 (5 tenths) to the line
prob_over(line, mu, sd, is_discrete) ==
    Million - normal_cdf(line + (IF is_discrete THEN 5 ELSE 0), mu, sd)

\* ev_per_unit(p, american_odds) in millionths: p * b - (1 - p)
ev_per_unit(p, american_odds) ==
    IF american_odds < 0
    THEN (p * 100) \div Abs(american_odds) - (Million - p)
    ELSE (p * american_odds) \div 100 - (Million - p)

(***************************************************************************)
(* Staking                                                                 *)
(***************************************************************************)
\* a >= b for sort keys: tuples compared field by field
KeyGE(a, b) == a[1] > b[1] \/ (a[1] = b[1] /\ (Len(a) = 1 \/ a[2] >= b[2]))

RECURSIVE insert_desc(_, _, _)
\* insert index x after every index whose key is >= the key of x
insert_desc(order, x, keys) ==
    IF order = <<>> THEN <<x>>
    ELSE IF KeyGE(keys[Head(order)], keys[x])
         THEN <<Head(order)>> \o insert_desc(Tail(order), x, keys)
         ELSE <<x>> \o order

RECURSIVE order_desc(_, _)
\* the indices 1..n of keys in descending key order, equal keys in index order
\* (a stable sort, as sorted(reverse=True) and mergesort are)
order_desc(keys, n) ==
    IF n = 0 THEN <<>>
    ELSE insert_desc(order_desc(keys, n - 1), n, keys)

\* s reordered by descending key, stable
sorted_desc(s, keys) == [i \in 1..Len(s) |-> s[order_desc(keys, Len(s))[i]]]

RECURSIVE first_band_exclusive(_, _)
\* a band test with an exclusive threshold
first_band_exclusive(bands, ev_now) ==
    IF bands = <<>> THEN 0
    ELSE IF ev_now > Head(bands).min_ev THEN Head(bands).stake_u
    ELSE first_band_exclusive(Tail(bands), ev_now)

RECURSIVE first_band(_, _)
\* for band in bands: if ev_now >= band["min_ev"]: stake_u = band["stake_u"]; break
first_band(bands, ev_now) ==
    IF bands = <<>> THEN 0
    ELSE IF ev_now >= Head(bands).min_ev THEN Head(bands).stake_u
    ELSE first_band(Tail(bands), ev_now)

\* stake_u of scan_edges: bands by min_ev descending, the first one the EV meets.
\* min_ev and ev_now in millionths, stake_u in hundredths of a unit
stake_units(stake_bands, ev_now) ==
    first_band(sorted_desc(stake_bands, [i \in 1..Len(stake_bands) |-> <<stake_bands[i].min_ev>>]),
               ev_now)

\* stake_dollars = round(bankroll * unit_pct * stake_u, 2), in cents; bankroll in
\* cents, unit_pct in hundredths of a percent
stake_dollars(bankroll, unit_pct, stake_u) ==
    RoundHalfEven(bankroll * unit_pct * stake_u, Million)

(***************************************************************************)
(* Budgeting                                                               *)
(***************************************************************************)
\* estimate_credits: num_events * len(markets) * len(regions.split(","))
estimate_credits(num_events, markets, regions) ==
    num_events * Len(markets) * split_comma_count(regions)

\* a trim that forgets the floor of one market
keep_markets_no_floor(ceiling, num_events) == ceiling \div num_events

\* keep = max(1, max_calls // num_events)
keep_markets(ceiling, num_events) == Max(1, ceiling \div num_events)

\* whether the budget step trims: est > max_calls and num_events > 0
must_trim(est, ceiling, num_events) == est > ceiling /\ num_events > 0

\* markets_list after the budget step
budget_markets(markets, est, ceiling, num_events) ==
    IF must_trim(est, ceiling, num_events)
    THEN Take(markets, keep_markets(ceiling, num_events))
    ELSE markets

RECURSIVE dict_items(_, _)
\* {e["id"]: e for e in events}: items in order of first insertion, each key with
\* the value assigned last
dict_items(es, items) ==
    IF es = <<>> THEN items
    ELSE LET e == Head(es)
             at == {i \in 1..Len(items) : items[i].id = e.id}
         IN  dict_items(Tail(es),
                        IF at = {} THEN Append(items, e)
                        ELSE [items EXCEPT ![CHOOSE i \in at : TRUE] = e])
\* an event loop that visits the first listed event only
event_map_first_only(es) == Take(es, 1)

\* an event loop over the raw list, duplicates included
event_map_keep_duplicates(es) == es
event_map_of(es) == dict_items(es, <<>>)

(***************************************************************************)
(* Configuration access and the diagnostics record                         *)
(***************************************************************************)
\* cfg.get(key, default): cfg.keys holds the keys present in the mapping
CfgGet(c, key, default) == IF key \in c.keys THEN c[key] ELSE default

\* the default stake_bands of scan_edges
DefaultStakeBands ==
    <<[min_ev |-> 80000, stake_u |-> 100],
      [min_ev |-> 40000, stake_u |-> 50],
      [min_ev |-> 20000, stake_u |-> 30]>>

\* cfg.get("markets", {}).get(profile, cfg.get("markets", {}).get("base", []))
profile_markets(c, profile) ==
    LET m == CfgGet(c, "markets", <<>>)
    IN  IF profile \in DOMAIN m THEN m[profile]
        ELSE IF "base" \in DOMAIN m THEN m["base"] ELSE <<>>

DigitChars == <<"0","1","2","3","4","5","6","7","8","9">>
RECURSIVE digits_value(_, _)
digits_value(s, acc) ==
    IF s = <<>> THEN acc
    ELSE digits_value(Tail(s), 10 * acc + IndexIn(Head(s), DigitChars) - 1)
\* int(s) and int(float(s)) of a str: surrounding blanks, an optional sign and
\* decimal digits convert; the strings used here that are not of this form raise
int_of_str(s) ==
    LET t == strip(s)
        signed == t # <<>> /\ Head(t) \in {"-", "+"}
        d == IF signed THEN Tail(t) ELSE t
    IN  IF d # <<>> /\ \A i \in 1..Len(d) : d[i] \in Range(DigitChars)
        THEN [ok |-> TRUE, n |-> IF signed /\ Head(t) = "-" THEN -digits_value(d, 0)
                                 ELSE digits_value(d, 0)]
        ELSE [ok |-> FALSE, n |-> 0]

\* a configuration reader that drops max_juice
parse_max_juice_ignored(c) == [set |-> FALSE, n |-> 0]

\* max_juice: None, "" and unparseable values give None, else int(float(value))
parse_max_juice(c) ==
    LET v == CfgGet(c, "max_juice", None)
    IN  IF v.k = "num" THEN [set |-> TRUE, n |-> v.n]
        ELSE IF v.k = "str" /\ int_of_str(v.s).ok THEN [set |-> TRUE, n |-> int_of_str(v.s).n]
        ELSE [set |-> FALSE, n |-> 0]

\* top_n = int(cfg.get("top_n")), 0 when that raises
parse_top_n(c) ==
    LET v == CfgGet(c, "top_n", None)
    IN  IF v.k = "num" THEN v.n
        ELSE IF v.k = "str" /\ int_of_str(v.s).ok THEN int_of_str(v.s).n
        ELSE 0

\* diag["reasons"] is a mapping from reason to count; a reason is the triple of
\* its "::"-separated parts
Reason(name, market, side) == [reason |-> name, market |-> market, side |-> side]
bump(reasons, reason) ==
    IF reason \in DOMAIN reasons THEN [reasons EXCEPT ![reason] = @ + 1]
    ELSE reasons @@ (reason :> 1)
Count(reasons, reason) == IF reason \in DOMAIN reasons THEN reasons[reason] ELSE 0

(***************************************************************************)
(* Projection rows                                                         *)
(***************************************************************************)
\* r.get(col): None when the table has no such column
Get(r, col) == IF col \in DOMAIN r THEN r[col] ELSE None

\* f"{market_key}_sd" and market_key.replace("player_", "") + "_sd"
sd_columns(market_key) ==
    CASE market_key = "player_pass_yds" -> <<"player_pass_yds_sd", "pass_yds_sd">>
      [] market_key = "player_pass_tds" -> <<"player_pass_tds_sd", "pass_tds_sd">>
      [] market_key = "player_rush_yds" -> <<"player_rush_yds_sd", "rush_yds_sd">>

RECURSIVE src_sd_of(_, _)
\* the first candidate column that is present, not missing and converts to float
src_sd_of(r, cands) ==
    IF cands = <<>> THEN None
    ELSE IF Head(cands) \in DOMAIN r /\ r[Head(cands)].k = "num" THEN r[Head(cands)]
    ELSE src_sd_of(r, Tail(cands))

\* str(row.get("pos") or row.get("position") or "").upper(); str(nan) is "nan"
pos_of(r) ==
    LET v == Or(Get(r, "pos"), Or(Get(r, "position"), StrCell(<<>>)))
    IN  IF v.k = "str" THEN upper(v.s) ELSE <<"N", "A", "N">>

\* sigma_cfg.get(pos, {}).get(market_key, 25.0), in tenths; sigma_cfg is the set
\* of its (pos, market, sd) entries
base_sigma_of(sigma_cfg, pos, market_key) ==
    IF \E e \in sigma_cfg : e[1] = pos /\ e[2] = market_key
    THEN (CHOOSE e \in sigma_cfg : e[1] = pos /\ e[2] = market_key)[3]
    ELSE 250

\* make_variance_blend in hundredths: sqrt(alpha*src^2 + (1-alpha)*base^2), alpha
\* in percent, src and base in tenths
make_variance_blend(r, market_key, sigma_cfg, alpha) ==
    LET src_sd == src_sd_of(r, sd_columns(market_key))
        base_sigma == base_sigma_of(sigma_cfg, pos_of(r), market_key)
    IN  IF src_sd.k # "num" THEN 10 * base_sigma
        ELSE isqrt(alpha * src_sd.n * src_sd.n + (100 - alpha) * base_sigma * base_sigma)

(***************************************************************************)
(* scan_edges: the per-event body                                          *)
(***************************************************************************)
\* team_matches of scan_edges; t is a str
team_matches(t, home_raw, away_raw) ==
    LET home == upper(home_raw)
        away == upper(away_raw)
        canon == canonical_team(t)
        T == upper(t)
    IN  IF t = <<>> THEN FALSE
        ELSE IF canon # <<>> /\ (canon = canonical_team(home_raw) \/ canon = canonical_team(away_raw))
             THEN TRUE
        ELSE Contains(T, home) \/ Contains(T, away) \/ Contains(home, T) \/ Contains(away, T)

\* a team cell on which team_matches raises: a truthy non-str (NaN) has no upper()
team_cell_raises(t) == t.k # "str" /\ Truthy(t)
team_cell_matches(t, home_raw, away_raw) == t.k = "str" /\ team_matches(t.s, home_raw, away_raw)

\* a selection that drops the unselected rows from the table itself
frame_after_select_in_place(table, kept) == [table EXCEPT !.rows = kept]

\* projections[mask] (lines 458-462) builds a new frame from the selected rows
\* and leaves the frame it reads as it was
frame_after_select(table, kept) == table

\* a filter without the fallback to the whole table
event_rows_no_fallback(table, use_all, home_raw, away_raw) ==
    [raised |-> FALSE, empty |-> FALSE, table |-> table,
     rows |-> IF use_all THEN table.rows
              ELSE SelectSeq(table.rows, LAMBDA r : team_cell_matches(r["team"], home_raw, away_raw))]

\* the rows scanned for an event (lines 445-466): [raised, empty, rows], with
\* the projections table as the selection leaves it
event_rows(table, use_all, home_raw, away_raw) ==
    IF use_all
    THEN [raised |-> FALSE, empty |-> FALSE, rows |-> table.rows, table |-> table]
    ELSE IF "team" \notin table.columns
    THEN [raised |-> FALSE, empty |-> table.rows = <<>>, rows |-> table.rows, table |-> table]
    ELSE IF \E i \in 1..Len(table.rows) : team_cell_raises(table.rows[i]["team"])
    THEN [raised |-> TRUE, empty |-> FALSE, rows |-> <<>>, table |-> table]
    ELSE LET kept == SelectSeq(table.rows,
                               LAMBDA r : team_cell_matches(r["team"], home_raw, away_raw))
             after == frame_after_select(table, kept)
         IN  IF kept = <<>>
             THEN [raised |-> FALSE, empty |-> TRUE, rows |-> after.rows, table |-> after]
             ELSE [raised |-> FALSE, empty |-> FALSE, rows |-> kept, table |-> after]

\* the edge row of lines 500-534
edge_row(r, player, mkey, side, mu, sd, offer, win_prob, ev_now) ==
    LET stake_u == stake_units(CfgGet(cfg, "stake_bands", DefaultStakeBands), ev_now)
    IN  [player |-> player, team |-> Get(r, "team"), pos |-> Or(Get(r, "pos"), Get(r, "position")),
         market_key |-> mkey, side |-> side, proj_mean |-> mu, model_sd |-> sd,
         best_book |-> offer.book, book_line |-> offer.line, book_odds |-> offer.price,
         win_prob |-> RoundHalfEven(win_prob, 100), ev_per_unit |-> RoundHalfEven(ev_now, 100),
         playable |-> ev_now > 0, stake_u |-> stake_u,
         stake_dollars |-> stake_dollars(CfgGet(cfg, "bankroll", 100000),
                                         CfgGet(cfg, "unit_pct", 100), stake_u),
         event_id |-> ev.event.id, home_team |-> upper(ev.event.home_team),
         away_team |-> upper(ev.event.away_team)]

\* one pass of the side loop (lines 487-534); acc is [rows, reasons, raised]
scan_side(acc, r, player, mkey, mu, sd, side) ==
    IF acc.raised # "" THEN acc
    ELSE IF player.k # "str" THEN [acc EXCEPT !.raised = "AttributeError"]
    ELSE LET offer == best_offer_for_player(ev.json, player.s, mkey, side,
                                            CfgGet(cfg, "target_books", {}))
             p_over == prob_over(offer.line, mu, sd, is_discrete_market(mkey))
             win_prob == IF side = "UNDER" THEN Million - p_over ELSE p_over
             ev_now == ev_per_unit(win_prob, offer.price)
             max_juice == parse_max_juice(cfg)
         IN  IF ~offer.found
             THEN [acc EXCEPT !.reasons = bump(@, Reason("no_offer", mkey, side))]
             ELSE IF max_juice.set /\ offer.price < max_juice.n
             THEN [acc EXCEPT !.reasons = bump(@, Reason("price_exceeds_max_juice", mkey, ""))]
             ELSE [acc EXCEPT !.rows =
                       Append(@, edge_row(r, player.s, mkey, side, mu, sd, offer, win_prob, ev_now))]

\* one pass of the market loop (lines 474-486)
scan_market(acc, r, player, mkey) ==
    IF acc.raised # "" THEN acc
    ELSE IF mkey \notin DOMAIN r
    THEN [acc EXCEPT !.reasons = bump(@, Reason("missing_market_col", mkey, ""))]
    ELSE IF r[mkey].k \in {"str", "none"}
    THEN [acc EXCEPT !.reasons = bump(@, Reason("bad_projection_value", mkey, ""))]
    ELSE IF r[mkey].k = "nan"
    THEN [acc EXCEPT !.reasons = bump(@, Reason("missing_projection_value", mkey, ""))]
    ELSE LET mu == r[mkey].n
             sd == make_variance_blend(r, mkey, CfgGet(cfg, "sigma_defaults", {}),
                                       CfgGet(cfg, "blend_alpha", 35))
         IN  scan_side(scan_side(acc, r, player, mkey, mu, sd, "OVER"),
                       r, player, mkey, mu, sd, "UNDER")

RECURSIVE scan_markets(_, _, _, _)
scan_markets(acc, r, player, mkeys) ==
    IF mkeys = <<>> THEN acc
    ELSE scan_markets(scan_market(acc, r, player, Head(mkeys)), r, player, Tail(mkeys))

\* one pass of the row loop (lines 468-534)
scan_row(acc, r) ==
    LET player == Or(Get(r, "player"), Or(Get(r, "name"), StrCell(<<>>)))
    IN  IF ~Truthy(player)
        THEN [acc EXCEPT !.reasons = bump(@, Reason("missing_player_name", "", ""))]
        ELSE scan_markets(acc, r, player, markets_list)

\* df.sort_values(["ev_per_unit", "win_prob"], ascending=False, kind="mergesort")
sort_edges(rs) == sorted_desc(rs, [i \in 1..Len(rs) |-> <<rs[i].ev_per_unit, rs[i].win_prob>>])

\* a result that is sorted but never truncated
result_table_untruncated(rs, top_n) == IF rs = <<>> THEN <<>> ELSE sort_edges(rs)

\* the returned table: sorted, then head(top_n) when top_n > 0
result_table(rs, top_n) ==
    IF rs = <<>> THEN <<>>
    ELSE IF top_n > 0 THEN Take(sort_edges(rs), top_n) ELSE sort_edges(rs)

(***************************************************************************)
(* Bounded inputs                                                          *)
(***************************************************************************)
PassYds == "player_pass_yds"
PassTds == "player_pass_tds"
RushYds == "player_rush_yds"

JoshAllen == <<"J","o","s","h"," ","A","l","l","e","n">>
DakPrescott == <<"D","a","k"," ","P","r","e","s","c","o","t","t">>

\* events as the provider lists them; EventB2 repeats the id of EventB
EventA == [id |-> "evA", home_team |-> <<"K","a","n","s","a","s"," ","C","i","t","y"," ","C","h","i","e","f","s">>, away_team |-> <<"B","u","f","f","a","l","o"," ","B","i","l","l","s">>]
EventB == [id |-> "evB", home_team |-> <<"D","a","l","l","a","s"," ","C","o","w","b","o","y","s">>, away_team |-> <<"B","u","f","f","a","l","o"," ","B","i","l","l","s">>]
EventB2 == [id |-> "evB", home_team |-> <<"D","a","l","l","a","s"," ","C","o","w","b","o","y","s">>, away_team |-> <<"K","a","n","s","a","s"," ","C","i","t","y"," ","C","h","i","e","f","s">>]
EventIds == {"evA", "evB"}
EventLists == SeqsUpTo({EventA, EventB, EventB2}, MaxEvents)

Outcome(name, description, point, price) ==
    [participant |-> None, player |-> None, player_name |-> None,
     name |-> name, description |-> description, point |-> point, price |-> price]

\* odds JSON bodies: {} and bookmakers with offers
EmptyOdds == [bookmakers |-> <<>>]
OddsAllen ==
    [bookmakers |->
        <<[key |-> "fanduel",
           markets |-> <<[key |-> PassYds,
                          outcomes |-> <<Outcome(StrCell(JoshAllen), None, NumCell(2455), NumCell(-110)),
                                         Outcome(StrCell(JoshAllen), None, NumCell(2505), NumCell(120))>>]>>],
          [key |-> "draftkings",
           markets |-> <<[key |-> PassYds,
                          outcomes |-> <<Outcome(StrCell(JoshAllen), None, NumCell(2455), NumCell(-105))>>],
                         [key |-> PassTds,
                          outcomes |-> <<Outcome(StrCell(JoshAllen), None, NumCell(15), NumCell(-120))>>]>>]>>]

Row(player, team, pos, pass_yds, pass_tds) ==
    ("player" :> player) @@ ("team" :> team) @@ ("pos" :> pos)
    @@ (PassYds :> pass_yds) @@ (PassTds :> pass_tds)
Table(rs) == [columns |-> {"player", "team", "pos", PassYds, PassTds}, rows |-> rs]

AllenRow == Row(StrCell(JoshAllen), StrCell(<<"B","U","F">>), StrCell(<<"Q","B">>), NumCell(2500), NumCell(20))
DakRow == Row(StrCell(DakPrescott), StrCell(<<"D","A","L">>), StrCell(<<"Q","B">>), NumCell(2500), NaN)

SigmaDefaults == {<<<<"Q","B">>, PassYds, 600>>, <<<<"Q","B">>, PassTds, 10>>}

\* a configuration as load_config returns it, with the given markets and regions
Config(markets, regions) ==
    [keys |-> {"regions", "target_books", "markets", "sigma_defaults", "blend_alpha",
               "bankroll", "unit_pct", "stake_bands", "max_juice", "top_n"},
     regions |-> regions, target_books |-> {}, markets |-> ("base" :> markets),
     sigma_defaults |-> SigmaDefaults, blend_alpha |-> 35, bankroll |-> 100000,
     unit_pct |-> 100, stake_bands |-> DefaultStakeBands, max_juice |-> None,
     top_n |-> NumCell(0)]

MarketLists == {<<>>, <<PassYds>>, <<PassYds, PassTds>>, <<PassYds, PassTds, RushYds>>}
RegionStrings1 == <<"u","s">>
RegionStrings == {<<"u","s">>, <<"u","s",",","u","s","2">>}

(***************************************************************************)
(* scan_edges as a state machine                                           *)
(***************************************************************************)
\* the state when scan_edges has read its configuration (lines 350-403) and
\* calls list_upcoming_events (line 405)
ScanEntry(c, ceiling, table, use_all, prov, nfaults) ==
    /\ provider = prov
    /\ faults = nfaults
    /\ cfg = c
    /\ max_calls = ceiling
    /\ no_team_filter = use_all
    /\ projections = table
    /\ pc = "http"
    /\ call = list_upcoming_events
    /\ calls = <<NewCallRecord(list_upcoming_events)>>
    /\ ledger = <<>>
    /\ events = <<>>
    /\ event_map = <<>>
    /\ markets_list = profile_markets(c, "base")
    /\ ev = [event |-> EventA, json |-> EmptyOdds]
    /\ df_ev = <<>>
    /\ ri = 1
    /\ diag = [events |-> 0, events_used |-> 0, reasons |-> <<>>,
               markets_requested |-> profile_markets(c, "base"),
               trimmed |-> FALSE, markets_trimmed |-> <<>>]
    /\ rows = <<>>
    /\ df = <<>>
    /\ error = ""

OfferIdle == offer_in = <<>> /\ offer_q = [asked |-> FALSE]
StakeIdle == stake_in = <<>> /\ stake_q = [asked |-> FALSE]
\* alert_edges, main and push_csv have not been called
LibIdle == lib = [pc |-> "idle"]
ToolsIdle == alert = [pc |-> "idle"] /\ cli = [pc |-> "idle"] /\ fs = [pc |-> "idle"] /\ LibIdle

\* scans of one configuration against every event list, with provider faults
Init ==
    /\ \E es \in EventLists, oddsA \in {EmptyOdds, OddsAllen} :
          ScanEntry(Config(<<PassYds, PassTds>>, RegionStrings1), CliMaxCalls,
                    Table(<<AllenRow, DakRow>>), FALSE,
                    [events |-> es, odds |-> ("evA" :> oddsA) @@ ("evB" :> OddsAllen)], MaxFaults)
    /\ OfferIdle
    /\ StakeIdle
    /\ ToolsIdle

\* the exception leaves scan_edges: nothing after the raising statement runs
Raise(exc) ==
    /\ pc' = "raised"
    /\ error' = exc

\* one pass of the loop of http_get_json (lines 88-95) and, when the loop is
\* exhausted, lines 96-97; the caller resumes with the returned JSON
http_get_json ==
    /\ pc = "http"
    /\ \E status \in Statuses \cup {NoResponse} :
        LET record(result) == [calls EXCEPT ![Len(calls)].statuses = Append(@, status),
                                            ![Len(calls)].result = result]
            resume(result) ==
                /\ calls' = record(result)
                /\ error' = error
                /\ IF call.kind = "events"
                   THEN /\ pc' = "budget"
                        /\ events' = (IF result = "json" THEN provider.events ELSE <<>>)
                        /\ ev' = ev
                   ELSE /\ pc' = "event"
                        /\ events' = events
                        /\ ev' = [ev EXCEPT !.json = IF result = "json"
                                                     THEN provider.odds[call.event_id]
                                                     ELSE EmptyOdds]
            fail(exc) ==
                /\ calls' = record(exc)
                /\ Raise(exc)
                /\ UNCHANGED <<events, ev>>
        IN  /\ IsFault(status) => faults > 0
            /\ faults' = (IF IsFault(status) THEN faults - 1 ELSE faults)
            /\ call' = [call EXCEPT !.attempt = @ + 1]
            /\ ledger' = (IF status = NoResponse THEN ledger ELSE _log_usage(ledger, status, call))
            /\ IF status = NoResponse THEN fail("ConnectionError")
               ELSE IF IsServerError(status)
               THEN IF call.attempt + 1 < MaxAttempts
                    THEN /\ calls' = record("pending")
                         /\ UNCHANGED <<pc, error, events, ev>>
                    ELSE IF raise_for_status(status) THEN fail("HTTPError")
                    ELSE resume("empty")
               ELSE IF raise_for_status(status) THEN fail("HTTPError")
               ELSE resume("json")
    /\ UNCHANGED <<provider, cfg, max_calls, no_team_filter, projections, event_map,
                   markets_list, df_ev, ri, diag, rows, df>>
    /\ UNCHANGED <<offerVars, stakeVars, toolVars>>

\* lines 406-418: count the events, estimate, trim the markets, key the events
Budget ==
    /\ pc = "budget"
    /\ LET num_events == Len(events)
           est == estimate_credits(num_events, markets_list, CfgGet(cfg, "regions", <<"u","s",",","u","s","2">>))
           kept == budget_markets(markets_list, est, max_calls, num_events)
       IN  /\ markets_list' = kept
           /\ diag' = [diag EXCEPT !.events = num_events,
                                   !.trimmed = must_trim(est, max_calls, num_events),
                                   !.markets_trimmed = IF must_trim(est, max_calls, num_events)
                                                       THEN kept ELSE @]
    /\ event_map' = event_map_of(events)
    /\ pc' = "loop"
    /\ UNCHANGED <<provider, faults, cfg, max_calls, no_team_filter, projections, call, calls, ledger,
                   events, ev, df_ev, ri, rows, df, error>>
    /\ UNCHANGED <<offerVars, stakeVars, toolVars>>

\* lines 421-431: the head of the event loop; it ends when the events are
\* exhausted or the market list is empty, else it calls get_event_odds
NextEvent ==
    /\ pc = "loop"
    /\ IF event_map = <<>> \/ markets_list = <<>>
       THEN /\ pc' = "finish"
            /\ UNCHANGED <<call, calls, ev, event_map>>
       ELSE /\ pc' = "http"
            /\ call' = get_event_odds(Head(event_map).id, markets_list)
            /\ calls' = Append(calls, NewCallRecord(get_event_odds(Head(event_map).id, markets_list)))
            /\ ev' = [ev EXCEPT !.event = Head(event_map)]
            /\ event_map' = Tail(event_map)
    /\ UNCHANGED <<provider, faults, cfg, max_calls, no_team_filter, projections, ledger, events,
                   markets_list, df_ev, ri, diag, rows, df, error>>
    /\ UNCHANGED <<offerVars, stakeVars, toolVars>>

\* lines 433-466: skip an event without bookmakers, else count it and pick its rows
HandleEvent ==
    /\ pc = "event"
    /\ IF ev.json.bookmakers = <<>>
       THEN /\ diag' = [diag EXCEPT !.reasons = bump(@, Reason("no_bookmakers_for_event", "", ""))]
            /\ pc' = "loop"
            /\ UNCHANGED <<df_ev, ri, error, projections>>
       ELSE LET picked == event_rows(projections, no_team_filter,
                                     ev.event.home_team, ev.event.away_team)
            IN  IF picked.raised
                THEN /\ diag' = [diag EXCEPT !.events_used = @ + 1]
                     /\ Raise("AttributeError")
                     /\ UNCHANGED <<df_ev, ri, projections>>
                ELSE /\ diag' = [diag EXCEPT !.events_used = @ + 1,
                                             !.reasons = IF picked.empty
                                                         THEN bump(@, Reason("team_filter_yielded_empty", "", ""))
                                                         ELSE @]
                     /\ df_ev' = picked.rows
                     /\ projections' = picked.table
                     /\ ri' = 1
                     /\ pc' = IF picked.rows = <<>> THEN "loop" ELSE "rows"
                     /\ error' = error
    /\ UNCHANGED <<provider, faults, cfg, max_calls, no_team_filter, call, calls, ledger,
                   events, event_map, markets_list, ev, rows, df>>
    /\ UNCHANGED <<offerVars, stakeVars, toolVars>>

\* lines 468-534 for one row of df_ev
ScanRow ==
    /\ pc = "rows"
    /\ LET acc == scan_row([rows |-> rows, reasons |-> diag.reasons, raised |-> ""], df_ev[ri])
       IN  IF acc.raised # ""
           THEN /\ Raise(acc.raised)
                /\ UNCHANGED <<rows, diag, ri>>
           ELSE /\ rows' = acc.rows
                /\ diag' = [diag EXCEPT !.reasons = acc.reasons]
                /\ ri' = ri + 1
                /\ pc' = IF ri = Len(df_ev) THEN "loop" ELSE "rows"
                /\ error' = error
    /\ UNCHANGED <<provider, faults, cfg, max_calls, no_team_filter, projections, call, calls, ledger,
                   events, event_map, markets_list, ev, df_ev, df>>
    /\ UNCHANGED <<offerVars, stakeVars, toolVars>>

\* lines 536-568: sort, truncate, write the diagnostics, return
Finish ==
    /\ pc = "finish"
    /\ df' = result_table(rows, parse_top_n(cfg))
    /\ pc' = "done"
    /\ UNCHANGED <<provider, faults, cfg, max_calls, no_team_filter, projections, call, calls, ledger,
                   events, event_map, markets_list, ev, df_ev, ri, diag, rows, error>>
    /\ UNCHANGED <<offerVars, stakeVars, toolVars>>

Next == http_get_json \/ Budget \/ NextEvent \/ HandleEvent \/ ScanRow \/ Finish

Spec == Init /\ [][Next]_vars

(***************************************************************************)
(* Properties of the HTTP helper and of the usage ledger                   *)
(***************************************************************************)
\* the requests of all calls so far, and those that received a response
RECURSIVE SumLen(_)
SumLen(cs) == IF cs = <<>> THEN 0 ELSE Len(Head(cs).statuses) + SumLen(Tail(cs))
RECURSIVE Responded(_)
Responded(cs) ==
    IF cs = <<>> THEN <<>>
    ELSE LET c == Head(cs)
             got == SelectSeq(c.statuses, LAMBDA st : st # NoResponse)
         IN  [i \in 1..Len(got) |-> [kind |-> c.kind, event_id |-> c.event_id,
                                     markets |-> c.markets, status |-> got[i]]]
             \o Responded(Tail(cs))

IsPrefix(s, t) == Len(s) <= Len(t) /\ \A i \in 1..Len(s) : s[i] = t[i]

\* the retry policy holds of one call of http_get_json
RetryPolicyHolds(c) ==
    LET n == Len(c.statuses) IN
    /\ n <= 3
    /\ \A i \in 1..n :
          /\ i < n => (500 <= c.statuses[i] /\ c.statuses[i] <= 599)
          /\ (400 <= c.statuses[i] /\ c.statuses[i] <= 499) => c.result = "HTTPError"
          /\ (c.statuses[i] # NoResponse /\ c.statuses[i] < 400) => c.result = "json"
    /\ (n = 3 /\ 500 <= c.statuses[3] /\ c.statuses[3] <= 599) => c.result = "HTTPError"
    /\ c.result = "pending" => n < 3

\* C1: a call of the HTTP helper sends at most three requests, sends another
\* one only after a 5xx response, raises at once on a 4xx response, returns
\* the body of a non-error response, and raises after three 5xx responses.
C1_RetryPolicy == \A i \in 1..Len(calls) : RetryPolicyHolds(calls[i])

\* a call that was answered 503 three times and raised
C1_Witness ==
    \E i \in 1..Len(calls) :
        calls[i].statuses = <<503, 503, 503>> /\ calls[i].result = "HTTPError"

\* C2 as stated: one ledger row per request attempt
C2_RowPerAttempt == Len(ledger) = SumLen(calls)

\* the ledger holds, in order, one row for each response received so far
LedgerMatchesResponses ==
    LET got == Responded(calls) IN
    /\ Len(ledger) = Len(got)
    /\ \A i \in 1..Len(got) :
          /\ ledger[i].status = got[i].status
          /\ ledger[i].endpoint = [kind |-> got[i].kind, event_id |-> got[i].event_id,
                                   markets |-> got[i].markets]

\* a step appends at most one row, and only for a response it received
LedgerGrows ==
    /\ IsPrefix(ledger, ledger')
    /\ Len(ledger') - Len(ledger) = Len(Responded(calls')) - Len(Responded(calls))
    /\ Len(ledger') - Len(ledger) <= 1

\* C2: every request attempt that receives a response, whatever its status,
\* appends exactly one row to the usage ledger; an attempt that ends without a
\* response appends none; the ledger only grows.  So the ledger has as many
\* rows as there were answered attempts.
C2_LedgerRows ==
    /\ []LedgerMatchesResponses
    /\ [][LedgerGrows]_vars

\* a 503 response left its row, the retry that got no response left none
C2_Witness ==
    /\ \E i \in 1..Len(calls) : calls[i].statuses = <<200>>
    /\ \E i \in 1..Len(calls) : calls[i].statuses = <<503, NoResponse>>
    /\ Len(ledger) = 2
    /\ ledger[2].status = 503

(***************************************************************************)
(* Properties of the event loop                                            *)
(***************************************************************************)
OddsCalls(id) == {i \in 1..Len(calls) : calls[i].kind = "odds" /\ calls[i].event_id = id}
RECURSIVE SumRequests(_)
SumRequests(S) ==
    IF S = {} THEN 0
    ELSE LET i == CHOOSE x \in S : TRUE IN Len(calls[i].statuses) + SumRequests(S \ {i})
Listed(id) == {i \in 1..Len(events) : events[i].id = id}

\* a step that handles an event's rows sends nothing to the provider
NoRequestInRowSteps ==
    (pc \in {"event", "rows", "finish"}) => (calls' = calls /\ ledger' = ledger)

\* C3 as stated: a finished scan has sent exactly one odds request per listed event
C3_OneRequestPerEvent ==
    pc = "done" => \A id \in EventIds : SumRequests(OddsCalls(id)) = Cardinality(Listed(id))

\* C3: at most one per-event odds call is made for each distinct listed event
\* id, and exactly one when the scan completes with a non-empty market list;
\* a call sends one to three requests, each for the whole market list in use;
\* no request is sent by the steps that handle an event's rows.
C3_OneCallPerEventId ==
    /\ [](\A id \in EventIds :
            /\ Cardinality(OddsCalls(id)) <= 1
            /\ OddsCalls(id) # {} => Listed(id) # {}
            /\ \A i \in OddsCalls(id) :
                  /\ Len(calls[i].statuses) <= 3
                  /\ calls[i].markets = markets_list
                  /\ calls[i].result # "pending" => Len(calls[i].statuses) >= 1
            /\ (pc = "done" /\ markets_list # <<>> /\ Listed(id) # {})
                  => \E i \in OddsCalls(id) : calls[i].result = "json")
    /\ [][NoRequestInRowSteps]_vars

\* two listed events share an id, and the finished scan fetched its odds once
C3_Witness ==
    /\ pc = "done"
    /\ Cardinality(Listed("evB")) = 2
    /\ Cardinality(OddsCalls("evB")) = 1
    /\ rows # <<>>

\* C5: a failed per-event odds fetch does not end the scan with an error
C5_OddsFailureSkipped ==
    \A i \in 1..Len(calls) :
        (calls[i].kind = "odds" /\ calls[i].result \in {"HTTPError", "ConnectionError"})
            => pc # "raised"

(***************************************************************************)
(* Budget: scans of every market list, region string, ceiling, event list  *)
(***************************************************************************)
InitBudget ==
    /\ \E m \in MarketLists, r \in RegionStrings, ceiling \in 0..MaxCalls, es \in EventLists :
          ScanEntry(Config(m, r), ceiling, Table(<<AllenRow, DakRow>>), FALSE,
                    [events |-> es, odds |-> ("evA" :> OddsAllen) @@ ("evB" :> OddsAllen)], 0)
    /\ OfferIdle
    /\ StakeIdle
    /\ ToolsIdle

SpecBudget == InitBudget /\ [][Next]_vars

\* the budget step has run
Budgeted == pc # "budget" /\ ~(pc \in {"http", "raised"} /\ call.kind = "events")

\* the estimate and the trim as the budget rule states them
RequestedMarkets == cfg.markets["base"]
RegionCount == IF cfg.regions = RegionStrings1 THEN 1 ELSE 2
EstimatedCredits == Len(events) * Len(RequestedMarkets) * RegionCount
OverBudget == EstimatedCredits > max_calls /\ Len(events) > 0
KeptCount ==
    LET k == IF max_calls \div Len(events) >= 1 THEN max_calls \div Len(events) ELSE 1
    IN  IF k <= Len(RequestedMarkets) THEN k ELSE Len(RequestedMarkets)

\* C4: when the estimate events x markets x regions exceeds the ceiling and
\* there is at least one event, the market list becomes its first
\* max(1, ceiling // events) entries before any per-event odds call, the
\* trimmed list is recorded in the diagnostics, and every per-event request
\* asks for exactly that list; otherwise the list is left as configured.
C4_BudgetTrim ==
    /\ ~Budgeted => (\A i \in 1..Len(calls) : calls[i].kind = "events")
    /\ Budgeted =>
          /\ OverBudget =>
                /\ markets_list = [i \in 1..KeptCount |-> RequestedMarkets[i]]
                /\ diag.trimmed
                /\ diag.markets_trimmed = markets_list
          /\ ~OverBudget => (markets_list = RequestedMarkets /\ ~diag.trimmed)
          /\ \A i \in 1..Len(calls) :
                calls[i].kind = "odds" => calls[i].markets = markets_list

\* a ceiling of zero with two events: the finished scan asked for one market of several
C4_Witness ==
    /\ pc = "done"
    /\ max_calls = 0
    /\ Len(events) = 2
    /\ OverBudget
    /\ Len(markets_list) = 1
    /\ Len(RequestedMarkets) > 1
    /\ \E i \in 1..Len(calls) :
          calls[i].kind = "odds" /\ calls[i].markets = markets_list /\ calls[i].result = "json"

(***************************************************************************)
(* Rows: scans of one event over tables with defective rows                *)
(***************************************************************************)
MaxRows == 2

\* rows a projections file can hold: a blank or missing player name, a missing
\* or non-numeric projection
NanPlayerRow == Row(NaN, StrCell(<<"B","U","F">>), StrCell(<<"Q","B">>), NumCell(2500), NumCell(20))
NoNameRow == Row(StrCell(<<>>), StrCell(<<"B","U","F">>), StrCell(<<"Q","B">>), NumCell(2500), NumCell(20))
AllenNoYdsRow == Row(StrCell(JoshAllen), StrCell(<<"B","U","F">>), StrCell(<<"Q","B">>), NaN, NumCell(20))
AllenBadYdsRow == Row(StrCell(JoshAllen), StrCell(<<"B","U","F">>), StrCell(<<"Q","B">>), StrCell(<<"n","/","a">>), NumCell(20))
RowSet == {AllenRow, NanPlayerRow, NoNameRow, AllenNoYdsRow, AllenBadYdsRow, DakRow}
Tables == {Table(rs) : rs \in SeqsUpTo(RowSet, MaxRows) \ {<<>>}}

\* an odds body whose lines are half a passing yard and two and a half touchdowns
OddsOddLines ==
    [bookmakers |->
        <<[key |-> "fanduel",
           markets |-> <<[key |-> PassYds,
                          outcomes |-> <<Outcome(StrCell(JoshAllen), None, NumCell(5), NumCell(-110))>>],
                         [key |-> PassTds,
                          outcomes |-> <<Outcome(StrCell(JoshAllen), None, NumCell(25), NumCell(150))>>]>>]>>]

InitRows ==
    /\ \E table \in Tables, use_all \in BOOLEAN, oddsA \in {OddsAllen, OddsOddLines},
          es \in {<<EventA>>, <<EventA, EventB>>} :
          ScanEntry(Config(<<PassYds, PassTds, RushYds>>, RegionStrings1), CliMaxCalls,
                    table, use_all,
                    [events |-> es, odds |-> ("evA" :> oddsA) @@ ("evB" :> EmptyOdds)], 0)
    /\ OfferIdle
    /\ StakeIdle
    /\ ToolsIdle

SpecRows == InitRows /\ [][Next]_vars

\* C6: no defect of a projection row ends the scan with an error; the row,
\* market or side is skipped, its reason is counted and the scan goes on.
C6_RowProblemsSkipped == ~(pc = "raised" /\ error = "AttributeError")

\* the per-market plausibility rule for a line (in tenths)
YardageMarkets == {"player_pass_yds", "player_rush_yds", "player_reception_yds"}
TouchdownMarkets == {"player_pass_tds", "player_rush_tds", "player_reception_tds", "player_anytime_td"}
LinePlausible(market_key, line) ==
    /\ market_key \in YardageMarkets => line >= 55
    /\ market_key \in TouchdownMarkets => line \in {5, 15}

\* C9: no edge row carries a line that breaks the per-market rule (yardage
\* markets need a line of at least 5.5, touchdown markets a line of 0.5 or 1.5).
C9_LinesPlausible ==
    \A i \in 1..Len(rows) : LinePlausible(rows[i].market_key, rows[i].book_line)

(***************************************************************************)
(* best_offer_for_player over odds payloads built offer by offer           *)
(***************************************************************************)
MaxOffers == 3

Books == {"fanduel", "draftkings"}
TargetSets == {{}, {"fanduel"}, {"betmgm"}}
Sides == {"OVER", "UNDER"}

JAllen == <<"J","."," ","A","l","l","e","n">>
\* outcomes a payload can list under a market: offers for Josh Allen at two
\* lines and two prices, one labelled by its description only, one for another
\* player, one with a negative line, one in another market
OfferSet ==
    {[market |-> PassYds, outcome |-> Outcome(StrCell(JoshAllen), None, NumCell(2455), NumCell(-110))],
     [market |-> PassYds, outcome |-> Outcome(StrCell(JoshAllen), None, NumCell(2455), NumCell(120))],
     [market |-> PassYds, outcome |-> Outcome(None, StrCell(JAllen), NumCell(2505), NumCell(-110))],
     [market |-> PassYds, outcome |-> Outcome(StrCell(DakPrescott), None, NumCell(2405), NumCell(150))],
     [market |-> PassYds, outcome |-> Outcome(StrCell(JoshAllen), None, NumCell(-5), NumCell(200))],
     [market |-> PassTds, outcome |-> Outcome(StrCell(JoshAllen), None, NumCell(2605), NumCell(130))]}

RECURSIVE CountMarketOutcomes(_)
CountMarketOutcomes(markets) ==
    IF markets = <<>> THEN 0
    ELSE Len(Head(markets).outcomes) + CountMarketOutcomes(Tail(markets))
RECURSIVE CountOutcomes(_)
\* the number of outcomes a payload lists
CountOutcomes(bookmakers) ==
    IF bookmakers = <<>> THEN 0
    ELSE CountMarketOutcomes(Head(bookmakers).markets) + CountOutcomes(Tail(bookmakers))

\* the payload with one more outcome: in the last market when book and market
\* repeat, in a new market of the last bookmaker when the book repeats, else
\* under a new bookmaker entry
with_offer(bookmakers, bk, item) ==
    LET n == Len(bookmakers)
        new_market == [key |-> item.market, outcomes |-> <<item.outcome>>]
    IN  IF n > 0 /\ bookmakers[n].key = bk
        THEN LET ms == bookmakers[n].markets
                 m == Len(ms)
             IN  IF ms[m].key = item.market
                 THEN [bookmakers EXCEPT ![n].markets[m].outcomes = Append(@, item.outcome)]
                 ELSE [bookmakers EXCEPT ![n].markets = Append(@, new_market)]
        ELSE Append(bookmakers, [key |-> bk, markets |-> <<new_market>>])

ScanIdle ==
    ScanEntry(Config(<<PassYds>>, RegionStrings1), CliMaxCalls, Table(<<AllenRow>>), FALSE,
              [events |-> <<>>, odds |-> ("evA" :> EmptyOdds) @@ ("evB" :> EmptyOdds)], 0)

InitOffer == ScanIdle /\ OfferIdle /\ StakeIdle /\ ToolsIdle

\* the provider's payload lists one more outcome
AddOffer ==
    /\ CountOutcomes(offer_in) < MaxOffers
    /\ \E bk \in Books, item \in OfferSet : offer_in' = with_offer(offer_in, bk, item)
    /\ offer_q' = [asked |-> FALSE]
    /\ UNCHANGED <<scanVars, stakeVars, toolVars>>

\* scan_edges asks for the best offer of a side (line 488)
BestOffer ==
    /\ ~offer_q.asked
    /\ \E side \in Sides, target_books \in TargetSets :
          offer_q' = [asked |-> TRUE, side |-> side, target_books |-> target_books,
                      result |-> best_offer_for_player([bookmakers |-> offer_in], JoshAllen,
                                                       PassYds, side, target_books)]
    /\ UNCHANGED <<offer_in, scanVars, stakeVars, toolVars>>

NextOffer == AddOffer \/ BestOffer

SpecOffer == InitOffer /\ [][NextOffer]_vars

\* the offers of the payload for Josh Allen's passing yards with a line that is
\* not negative, at the given books
IsAllenOutcome(o) == o.name = StrCell(JoshAllen) \/ o.description = StrCell(JAllen)
SaneOffers(books) ==
    UNION {UNION {{Offer(offer_in[i].key, o.point.n, o.price.n) :
                     o \in {x \in Range(offer_in[i].markets[j].outcomes) :
                               IsAllenOutcome(x) /\ x.point.n >= 0}} :
                  j \in {y \in 1..Len(offer_in[i].markets) : offer_in[i].markets[y].key = PassYds}} :
           i \in {z \in 1..Len(offer_in) : offer_in[z].key \in books}}
\* the set the search settles on: the target books' offers when there are any
SearchedOffers(target_books) ==
    IF target_books # {} /\ SaneOffers(target_books) # {}
    THEN SaneOffers(target_books) ELSE SaneOffers(Books)
\* r is a best offer of S for the side
BestIn(r, S, side) ==
    /\ r \in S
    /\ \A c \in S :
          IF side = "OVER"
          THEN r.line < c.line \/ (r.line = c.line /\ r.price >= c.price)
          ELSE r.line > c.line \/ (r.line = c.line /\ r.price >= c.price)

\* C7: over the set of matching sane offers it searches, best_offer_for_player
\* returns for OVER an offer with the minimum line and, at that line, the
\* maximum price, and for UNDER an offer with the maximum line and, at that
\* line, the maximum price, whatever the order of bookmakers and outcomes.
C7_BestOffer ==
    offer_q.asked =>
        LET S == SearchedOffers(offer_q.target_books) IN
        /\ offer_q.result.found <=> S # {}
        /\ offer_q.result.found => BestIn(offer_q.result, S, offer_q.side)

\* OVER with three offers listed from worst to best: the low line at the high price wins
C7_Witness ==
    /\ offer_q.asked /\ offer_q.side = "OVER" /\ offer_q.target_books = {}
    /\ Len(offer_in) = 1
    /\ Len(offer_in[1].markets) = 1
    /\ Len(offer_in[1].markets[1].outcomes) = 3
    /\ offer_in[1].markets[1].outcomes[1].point.n = 2505
    /\ offer_in[1].markets[1].outcomes[2].price.n = -110
    /\ offer_in[1].markets[1].outcomes[3].price.n = 120
    /\ offer_q.result = Offer(offer_in[1].key, 2455, 120)

\* C8: with a non-empty target set of which some book has a matching sane
\* offer, the result comes from a target book even if another book is better;
\* with a non-empty target set without a match, the result is the best offer
\* over all books; None is returned only when no book has a matching sane
\* offer; an empty target set searches all books.
C8_TargetBooks ==
    offer_q.asked =>
        LET T == offer_q.target_books
            r == offer_q.result
        IN  /\ (T # {} /\ SaneOffers(T) # {}) => (r.found /\ r.book \in T)
            /\ (T # {} /\ SaneOffers(T) = {} /\ SaneOffers(Books) # {})
                  => (r.found /\ BestIn(r, SaneOffers(Books), offer_q.side))
            /\ ~r.found => SaneOffers(Books) = {}
            /\ (T = {} /\ SaneOffers(Books) # {})
                  => (r.found /\ BestIn(r, SaneOffers(Books), offer_q.side))

\* fanduel is the target and has an offer; draftkings has a better one, which is ignored
C8_Witness ==
    /\ offer_q.asked /\ offer_q.side = "OVER" /\ offer_q.target_books = {"fanduel"}
    /\ offer_q.result = Offer("fanduel", 2505, -110)
    /\ Offer("draftkings", 2455, 120) \in SaneOffers(Books)

(***************************************************************************)
(* Staking of one edge over band lists built band by band                  *)
(***************************************************************************)
MaxBands == 3

\* bands a configuration can list: the default three and a second band at 0.04
BandSet == Range(DefaultStakeBands) \cup {[min_ev |-> 40000, stake_u |-> 80]}
\* EVs in millionths around the thresholds; bankrolls of $1000.00 and $123.45
EvSet == {-5000, 10000, 20000, 39999, 40000, 79999, 80000, 100000}
BankrollSet == {100000, 12345}

InitStake == ScanIdle /\ OfferIdle /\ StakeIdle /\ ToolsIdle

\* the configuration lists one more band
AddBand ==
    /\ Len(stake_in) < MaxBands
    /\ \E b \in BandSet : stake_in' = Append(stake_in, b)
    /\ stake_q' = [asked |-> FALSE]
    /\ UNCHANGED <<scanVars, offerVars, toolVars>>

\* lines 505-511 for an edge of the given EV
StakeEdge ==
    /\ ~stake_q.asked
    /\ \E ev_now \in EvSet, bankroll \in BankrollSet :
          LET stake_u == stake_units(stake_in, ev_now)
          IN  stake_q' = [asked |-> TRUE, ev_now |-> ev_now, bankroll |-> bankroll, unit_pct |-> 100,
                          stake_u |-> stake_u,
                          stake_dollars |-> stake_dollars(bankroll, 100, stake_u)]
    /\ UNCHANGED <<stake_in, scanVars, offerVars, toolVars>>

NextStake == AddBand \/ StakeEdge

SpecStake == InitStake /\ [][NextStake]_vars

\* the bands whose threshold the EV meets
MetBands == {i \in 1..Len(stake_in) : stake_in[i].min_ev <= stake_q.ev_now}
\* the stake is that of a met band of greatest threshold, or 0 without one
BandSelected ==
    IF MetBands = {} THEN stake_q.stake_u = 0
    ELSE \E i \in MetBands :
            /\ \A j \in MetBands : stake_in[j].min_ev <= stake_in[i].min_ev
            /\ stake_q.stake_u = stake_in[i].stake_u
\* with the bands 0.08 -> 1.0u, 0.04 -> 0.5u, 0.02 -> 0.3u in any order
DefaultBandsExamples ==
    (Len(stake_in) = 3 /\ Range(stake_in) = Range(DefaultStakeBands)) =>
        /\ stake_q.ev_now = 40000 => stake_q.stake_u = 50
        /\ stake_q.ev_now = 39999 => stake_q.stake_u = 30
        /\ stake_q.ev_now = 10000 => stake_q.stake_u = 0
\* bankroll (cents) x unit_pct (1/10000) x stake (1/100 units), in millionths of a cent
StakeProduct == stake_q.bankroll * stake_q.unit_pct * stake_q.stake_u

\* C10 as stated: the currency stake is exactly bankroll x unit_pct x stake units
C10_StakeExact ==
    stake_q.asked =>
        /\ BandSelected
        /\ DefaultBandsExamples
        /\ stake_q.stake_dollars * Million = StakeProduct

\* C10: for bands in any order the stake in units is that of the band with the
\* greatest min_ev that the EV meets or exceeds (threshold inclusive), 0 when
\* the EV is below every min_ev; with the default bands 0.04 gives 0.5u,
\* 0.039999 gives 0.3u and 0.01 gives 0u; the currency stake is bankroll x
\* unit_pct x stake units rounded to the cent.
C10_StakeBands ==
    stake_q.asked =>
        /\ BandSelected
        /\ DefaultBandsExamples
        /\ 2 * Abs(stake_q.stake_dollars * Million - StakeProduct) <= Million

\* the default bands listed lowest first, an EV of exactly 0.04 and a bankroll
\* whose stake does not come out in whole cents
C10_Witness ==
    /\ stake_q.asked
    /\ stake_in = <<DefaultStakeBands[3], DefaultStakeBands[2], DefaultStakeBands[1]>>
    /\ stake_q.ev_now = 40000
    /\ stake_q.stake_u = 50
    /\ stake_q.bankroll = 12345
    /\ stake_q.stake_dollars = 62

(***************************************************************************)
(* load_config and scans run by main with the configuration it returns     *)
(***************************************************************************)
\* raw.get(key, default) on the mapping yaml.safe_load returns
RawGet(raw, key, default) == IF key \in raw.keys THEN raw[key] ELSE default

\* lines 80-96: a flat market list becomes the "base" profile, a mapping is kept
markets_by_profile(raw) ==
    LET markets_cfg == RawGet(raw, "markets", [k |-> "list", list |-> <<>>, dict |-> <<>>])
    IN  IF markets_cfg.k = "dict" THEN markets_cfg.dict
        ELSE IF markets_cfg.k = "list" THEN ("base" :> markets_cfg.list)
        ELSE ("base" :> <<>>)

\* the mapping load_config returns (lines 99-114): every key is present
load_config(raw) ==
    [keys |-> {"regions", "target_books", "markets", "sigma_defaults", "blend_alpha",
               "bankroll", "unit_pct", "stake_bands", "max_juice", "top_n"},
     regions |-> RawGet(raw, "regions", <<"u","s">>),
     target_books |-> RawGet(raw, "target_books", {}),
     markets |-> markets_by_profile(raw),
     sigma_defaults |-> RawGet(raw, "outcome_sigma", RawGet(raw, "sigma_defaults", {})),
     blend_alpha |-> RawGet(raw, "blend_alpha", 35),
     bankroll |-> RawGet(raw, "bankroll", 100000),
     unit_pct |-> RawGet(raw, "unit_pct", 100),
     stake_bands |-> RawGet(raw, "ev_bands", RawGet(raw, "stake_bands", <<>>)),
     max_juice |-> RawGet(raw, "max_juice", None),
     top_n |-> RawGet(raw, "top_n", NumCell(0))]

\* configuration files: markets and sigmas given; the bands under either key
\* or absent; max_juice and top_n absent, valid or invalid
BandKeys == {"", "ev_bands", "stake_bands"}
MaxJuiceValues == {None, NumCell(-108), StrCell(<<"-","1","1","5">>), StrCell(<<>>), StrCell(<<"a","b","c">>)}
TopNValues == {None, NumCell(-1), NumCell(1), StrCell(<<"2">>), NumCell(3), StrCell(<<"a","l","l">>)}
RawYaml(band_key, max_juice, top_n) ==
    [keys |-> {"markets", "outcome_sigma"}
              \cup (IF band_key = "" THEN {} ELSE {band_key})
              \cup (IF max_juice = None THEN {} ELSE {"max_juice"})
              \cup (IF top_n = None THEN {} ELSE {"top_n"}),
     markets |-> [k |-> "list", list |-> <<PassYds, PassTds>>, dict |-> <<>>],
     outcome_sigma |-> SigmaDefaults,
     ev_bands |-> DefaultStakeBands,
     stake_bands |-> DefaultStakeBands,
     max_juice |-> max_juice,
     top_n |-> top_n]

\* main has loaded its configuration and calls scan_edges (agent_cli lines 213, 263)
InitConfig ==
    /\ \E band_key \in BandKeys, max_juice \in MaxJuiceValues, top_n \in TopNValues,
          es \in {<<EventA>>, <<EventA, EventB>>} :
          /\ ScanEntry(load_config(RawYaml(band_key, max_juice, top_n)), CliMaxCalls,
                       Table(<<AllenRow, DakRow>>), FALSE,
                       [events |-> es, odds |-> ("evA" :> OddsAllen) @@ ("evB" :> OddsAllen)], 0)
          /\ cli = [pc |-> "scan_edges", raw |-> RawYaml(band_key, max_juice, top_n)]
    /\ alert = [pc |-> "idle"]
    /\ fs = [pc |-> "idle"]
    /\ LibIdle
    /\ OfferIdle
    /\ StakeIdle

SpecConfig == InitConfig /\ [][Next]_vars

\* the stake of the default bands for a stored EV (in ten-thousandths)
DefaultStake(e) == IF e >= 800 THEN 100 ELSE IF e >= 400 THEN 50 ELSE IF e >= 200 THEN 30 ELSE 0

\* C11: when the configuration file defines neither ev_bands nor stake_bands,
\* the scan sizes stakes with the default bands 0.08 -> 1.0u, 0.04 -> 0.5u,
\* 0.02 -> 0.3u.
C11_DefaultBands ==
    ({"ev_bands", "stake_bands"} \cap cli.raw.keys = {}) =>
        \A i \in 1..Len(rows) : rows[i].stake_u = DefaultStake(rows[i].ev_per_unit)

\* the threshold the configuration file asks for, if it gives a number
JuiceConfigured ==
    "max_juice" \in cli.raw.keys
    /\ cli.raw.max_juice \in {NumCell(-108), StrCell(<<"-","1","1","5">>)}
JuiceThreshold == IF cli.raw.max_juice = NumCell(-108) THEN -108 ELSE -115
\* the offer selected for a projection row, market and side at a listed event
SelectedOffer(id, i, m, side) ==
    best_offer_for_player(provider.odds[id], projections.rows[i]["player"].s, m, side, {})
Combos ==
    {c \in {events[e].id : e \in 1..Len(events)} \X (1..Len(projections.rows))
           \X Range(cfg.markets["base"]) \X Sides :
        SelectedOffer(c[1], c[2], c[3], c[4]).found}
TooJuiced(c) ==
    JuiceConfigured /\ SelectedOffer(c[1], c[2], c[3], c[4]).price < JuiceThreshold
RowsOf(c) ==
    {k \in 1..Len(rows) :
        /\ rows[k].event_id = c[1]
        /\ rows[k].player = projections.rows[c[2]]["player"].s
        /\ rows[k].market_key = c[3]
        /\ rows[k].side = c[4]}

\* C12: with a max_juice threshold configured, a (player, market, side) whose
\* selected offer price is more negative than the threshold yields no edge row
\* and adds one to price_exceeds_max_juice::<market>, so no row has
\* book_odds < max_juice; with max_juice absent or invalid no row is dropped
\* for its price.
C12_MaxJuice ==
    /\ \A k \in 1..Len(rows) : JuiceConfigured => rows[k].book_odds >= JuiceThreshold
    /\ \A c \in Combos : TooJuiced(c) => RowsOf(c) = {}
    /\ \A m \in Range(cfg.markets["base"]) :
          /\ Count(diag.reasons, Reason("price_exceeds_max_juice", m, ""))
                <= Cardinality({c \in Combos : c[3] = m /\ TooJuiced(c)})
          /\ pc = "done" =>
                Count(diag.reasons, Reason("price_exceeds_max_juice", m, ""))
                   = Cardinality({c \in Combos : c[3] = m /\ TooJuiced(c)})
    /\ pc = "done" => \A c \in Combos : ~TooJuiced(c) => Cardinality(RowsOf(c)) = 1

\* a threshold of -108 dropped both sides of the -120 touchdown offer and kept the -105 one
C12_Witness ==
    /\ pc = "done"
    /\ JuiceConfigured /\ JuiceThreshold = -108
    /\ Count(diag.reasons, Reason("price_exceeds_max_juice", PassTds, "")) = 2
    /\ \E k \in 1..Len(rows) : rows[k].book_odds = -105

\* C13: no two rows of the table a scan builds share the same
\* (player, market_key, side).
C13_UniqueRows ==
    \A i \in 1..Len(rows) : \A j \in 1..Len(rows) :
        (/\ rows[i].player = rows[j].player
         /\ rows[i].market_key = rows[j].market_key
         /\ rows[i].side = rows[j].side) => i = j

\* the cap the configuration file asks for: 0 when absent, not positive or unparseable
TopNConfigured ==
    IF "top_n" \notin cli.raw.keys THEN 0
    ELSE IF cli.raw.top_n = NumCell(1) THEN 1
    ELSE IF cli.raw.top_n = StrCell(<<"2">>) THEN 2
    ELSE IF cli.raw.top_n = NumCell(3) THEN 3
    ELSE 0
\* row k precedes row j in the ranking: higher EV, then higher win probability,
\* then earlier emission
Precedes(k, j) ==
    \/ rows[k].ev_per_unit > rows[j].ev_per_unit
    \/ (rows[k].ev_per_unit = rows[j].ev_per_unit /\ rows[k].win_prob > rows[j].win_prob)
    \/ (rows[k].ev_per_unit = rows[j].ev_per_unit /\ rows[k].win_prob = rows[j].win_prob /\ k < j)
RankOf(j) == Cardinality({k \in 1..Len(rows) : Precedes(k, j)}) + 1

\* C14: the returned table is ordered by ev_per_unit descending, then win_prob
\* descending, rows equal on both keeping their emission order; with top_n > 0
\* it is exactly the first top_n rows of that order (all rows if fewer), and
\* with top_n 0, absent or unparseable no row is dropped.
C14_RankedAndLimited ==
    pc = "done" =>
        /\ Len(df) = IF TopNConfigured > 0 /\ TopNConfigured < Len(rows)
                     THEN TopNConfigured ELSE Len(rows)
        /\ \A j \in 1..Len(rows) : RankOf(j) <= Len(df) => df[RankOf(j)] = rows[j]

\* eight rows with ties on both keys, cut to the best two
C14_Witness ==
    /\ pc = "done"
    /\ Len(rows) = 8
    /\ TopNConfigured = 2
    /\ Len(df) = 2
    /\ df[1] # df[2]
    /\ df[1].ev_per_unit = df[2].ev_per_unit
    /\ df[1].event_id = "evA" /\ df[2].event_id = "evB"
    /\ rows[1].ev_per_unit < df[1].ev_per_unit

(***************************************************************************)
(* Slack alerting (alerts.py).  A frame is None or a sequence of edge rows; *)
(* a formatted advice line is represented by the row it was built from.     *)
(***************************************************************************)
MaxAdviceRows == 2
\* at most this many advice lines are sent
AdviceCap == 25
\* the default threshold_ev of alert_edges, 0.06, in ten-thousandths
DefaultThresholdEv == 600
\* the attempts of the posting loop
PostAttempts == 3

NoFrame == [k |-> "none", rows |-> <<>>]
Frame(rs) == [k |-> "frame", rows |-> rs]

format_advice(frame, threshold) ==
    IF frame.k = "none" \/ frame.rows = <<>>
    THEN [text |-> "No edges found.", lines |-> <<>>]
    ELSE LET lines == SelectSeq(frame.rows, LAMBDA r : ~(r.ev_per_unit < threshold))
         IN  IF lines # <<>>
             THEN [text |-> "", lines |-> Take(lines, AdviceCap)]
             ELSE [text |-> "No edges >= threshold.", lines |-> <<>>]

\* a resolution that keeps surrounding blanks
_resolve_webhook_unstripped(candidate, env_url, env_legacy) ==
    IF Truthy(candidate) THEN candidate.s
    ELSE Or(env_url, Or(env_legacy, StrCell(<<>>))).s

\* the explicit argument when it is not blank, else the first non-empty of the
\* environment variables SLACK_WEBHOOK_URL and SLACK_WEBHOOK, stripped
_resolve_webhook(candidate, env_url, env_legacy) ==
    IF Truthy(candidate) /\ strip(candidate.s) # <<>>
    THEN strip(candidate.s)
    ELSE strip(Or(env_url, Or(env_legacy, StrCell(<<>>))).s)

AlertMessage(frame, threshold) == [title |-> "*NFL Edges*", advice |-> format_advice(frame, threshold)]

NoFile == [written |-> FALSE, head |-> <<>>, msg |-> <<>>]
FailureFile(head, msg) == [written |-> TRUE, head |-> head, msg |-> <<msg>>]

\* the call alert_edges(df, threshold_ev, webhook) in an environment
AlertCall(frame, threshold, candidate, env_url, env_legacy) ==
    [pc |-> "start", df |-> frame, threshold_ev |-> threshold, candidate |-> candidate,
     env_url |-> env_url, env_legacy |-> env_legacy, webhook |-> <<>>, msg |-> <<>>,
     attempt |-> 0, errors |-> <<>>, posts |-> <<>>, slept |-> 0, file |-> NoFile]

\* what one requests.post can do: a response (status, body) or an exception
PostOutcomes ==
    {[kind |-> "resp", status |-> st, body |-> <<>>] : st \in {200, 204, 302, 404}}
        \cup {[kind |-> "resp", status |-> 500, body |-> <<" ", "e", "r", "r">>],
              [kind |-> "exc", status |-> 0, body |-> <<>>]}

\* lines 74-84: resolve the webhook, compose the message, fall back to the file
alert_edges_start ==
    /\ alert.pc = "start"
    /\ LET webhook == _resolve_webhook(alert.candidate, alert.env_url, alert.env_legacy)
           msg == AlertMessage(alert.df, alert.threshold_ev)
       IN  alert' = IF webhook = <<>>
                    THEN [alert EXCEPT !.pc = "returned", !.msg = <<msg>>,
                                       !.file = FailureFile(<<"No SLACK_WEBHOOK_URL configured.">>, msg)]
                    ELSE [alert EXCEPT !.pc = "post", !.webhook = webhook, !.msg = <<msg>>]
    /\ UNCHANGED <<scanVars, offerVars, stakeVars, cli, fs, lib>>

\* lines 88-116: one pass of the posting loop, with the file written after the last
alert_post ==
    /\ alert.pc = "post"
    /\ \E o \in PostOutcomes :
          LET posts == Append(alert.posts, o)
              detail == IF o.kind = "exc" THEN [kind |-> "Exception", status |-> 0, body |-> <<>>]
                        ELSE [kind |-> "HTTP", status |-> o.status, body |-> strip(o.body)]
              errors == Append(alert.errors, detail)
          IN  alert' =
                IF o.kind = "resp" /\ o.status < 400
                THEN [alert EXCEPT !.pc = "returned", !.posts = posts]
                ELSE IF alert.attempt < PostAttempts - 1
                THEN [alert EXCEPT !.posts = posts, !.errors = errors,
                                   !.attempt = alert.attempt + 1,
                                   !.slept = alert.slept + 2 * (alert.attempt + 1)]
                ELSE [alert EXCEPT !.pc = "returned", !.posts = posts, !.errors = errors,
                                   !.attempt = alert.attempt + 1,
                                   !.file = FailureFile(errors, alert.msg[1])]
    /\ UNCHANGED <<scanVars, offerVars, stakeVars, cli, fs, lib>>

EdgeHi == [player |-> "Josh Allen", ev_per_unit |-> 1073]
EdgeAt == [player |-> "Dak Prescott", ev_per_unit |-> 600]
EdgeLo == [player |-> "Josh Allen", ev_per_unit |-> 346]
LongRows == [i \in 1..(AdviceCap + 1) |-> EdgeHi]
AdviceFrames ==
    {NoFrame, Frame(LongRows)} \cup {Frame(rs) : rs \in SeqsUpTo({EdgeHi, EdgeAt, EdgeLo}, MaxAdviceRows)}
WebhookArgs == {None, StrCell(<<" ">>), StrCell(<<" ", "h", " ">>)}
EnvUrls == {None, StrCell(<<>>), StrCell(<<" ">>), StrCell(<<"h">>)}
EnvLegacy == {None, StrCell(<<" ">>), StrCell(<<"g">>)}

InitAlert ==
    /\ ScanIdle /\ OfferIdle /\ StakeIdle
    /\ cli = [pc |-> "idle"] /\ fs = [pc |-> "idle"] /\ LibIdle
    /\ \E frame \in AdviceFrames, candidate \in WebhookArgs, env_url \in EnvUrls,
          env_legacy \in EnvLegacy :
          alert = AlertCall(frame, DefaultThresholdEv, candidate, env_url, env_legacy)
NextAlert == alert_edges_start \/ alert_post
SpecAlert == InitAlert /\ [][NextAlert]_vars

\* a value that names no webhook: unset, empty or blanks only
Blank(x) == x.k = "none" \/ (x.k = "str" /\ \A i \in 1..Len(x.s) : x.s[i] = " ")
NoWebhookAvailable == Blank(alert.candidate) /\ Blank(alert.env_url) /\ Blank(alert.env_legacy)

\* C15: with no webhook available (no argument and neither environment
\* variable set, or blank values only), alert_edges makes no network request,
\* writes the failure file containing the formatted advice message and
\* returns, whatever the edges table is (None, empty, or with rows).
C15_DegradedMode ==
    (alert.pc # "idle" /\ NoWebhookAvailable) =>
        /\ alert.pc \in {"start", "returned"}
        /\ alert.posts = <<>>
        /\ alert.pc = "returned" =>
              /\ alert.file.written
              /\ alert.file.msg = <<[title |-> "*NFL Edges*",
                                     advice |-> format_advice(alert.df, alert.threshold_ev)]>>

\* blank argument and blank variables, a table with a qualifying row
C15_Witness ==
    /\ alert.pc = "returned"
    /\ alert.candidate = StrCell(<<" ">>)
    /\ alert.env_url = StrCell(<<" ">>)
    /\ alert.env_legacy = None
    /\ alert.df = Frame(<<EdgeLo, EdgeHi>>)
    /\ alert.file.written
    /\ alert.file.msg[1].advice.lines = <<EdgeHi>>
    /\ alert.posts = <<>>

\* C16: with a webhook, the failure file is written exactly when no attempt
\* got a 2xx response, and every non-2xx response is retried: at most three
\* posts, ending at the first 2xx.
C16_FileIffNoSuccess ==
    (alert.pc = "returned" /\ alert.webhook # <<>>) =>
        LET Success(o) == o.kind = "resp" /\ 200 <= o.status /\ o.status < 300
        IN  /\ Len(alert.posts) <= PostAttempts
            /\ alert.file.written <=> (\A i \in 1..Len(alert.posts) : ~Success(alert.posts[i]))
            /\ \A i \in 1..Len(alert.posts) : Success(alert.posts[i]) => i = Len(alert.posts)

(***************************************************************************)
(* The command line entry point (agent_cli.py main).  The scan it runs is   *)
(* represented by its outcome: a table of edges, an empty table or an       *)
(* exception; alert_edges is the machine above.                             *)
(***************************************************************************)
\* main has not returned
NoExit == -1

\* float(s) in ten-thousandths for decimal strings: blanks, an optional sign,
\* digits with at most one point; the other strings used here raise ValueError
float_of_str(s) ==
    LET t == strip(s)
        signed == t # <<>> /\ Head(t) \in {"-", "+"}
        d == IF signed THEN Tail(t) ELSE t
        dots == {i \in 1..Len(d) : d[i] = "."}
        p == IF dots = {} THEN Len(d) + 1 ELSE CHOOSE i \in dots : TRUE
        ip == SubSeq(d, 1, p - 1)
        fp == SubSeq(d, p + 1, Len(d))
        ok == /\ Cardinality(dots) <= 1
              /\ Len(ip) + Len(fp) >= 1
              /\ \A i \in 1..Len(d) : d[i] \in Range(DigitChars) \cup {"."}
        mag == digits_value(ip, 0) * 10000 + digits_value(Take(fp \o <<"0", "0", "0", "0">>, 4), 0)
    IN  IF ok THEN [ok |-> TRUE, n |-> IF signed /\ Head(t) = "-" THEN -mag ELSE mag]
        ELSE [ok |-> FALSE, n |-> 0]

(***************************************************************************)
(* Locating the projections file (file_finder.py).  A directory listing is  *)
(* the sequence of file names in the order glob returns them.               *)
(***************************************************************************)
StartsWith(s, pre) == Len(s) >= Len(pre) /\ SubSeq(s, 1, Len(pre)) = pre
EndsWith(s, suf) == Len(s) >= Len(suf) /\ SubSeq(s, Len(s) - Len(suf) + 1, Len(s)) = suf
AllDigits(s) == \A i \in 1..Len(s) : s[i] \in Range(DigitChars)
\* os.path.basename: what follows the last "/"
basename(path) ==
    LET slashes == {i \in 1..Len(path) : path[i] = "/"}
    IN  IF slashes = {} THEN path
        ELSE SubSeq(path, (CHOOSE i \in slashes : \A j \in slashes : j <= i) + 1, Len(path))

\* file names a data directory can hold
RawStatsWk9 == <<"r","a","w","_","s","t","a","t","s","_","2","0","2","5","_","w","k","9",".","c","s","v">>
RawStatsWk09 == <<"r","a","w","_","s","t","a","t","s","_","2","0","2","5","_","w","k","0","9",".","c","s","v">>
RawStatsWk10 == <<"r","a","w","_","s","t","a","t","s","_","2","0","2","5","_","w","k","1","0",".","c","s","v">>
RawStats2024 == <<"r","a","w","_","s","t","a","t","s","_","2","0","2","4","_","w","k","1","8",".","c","s","v">>
RawStatsShortYear == <<"r","a","w","_","s","t","a","t","s","_","2","5","_","w","k","1","1",".","c","s","v">>
RawStatsUpper == <<"R","A","W","_","S","T","A","T","S","_","2","0","2","6","_","W","K","1",".","c","s","v">>
NotesCsv == <<"n","o","t","e","s",".","c","s","v">>

NoYearWeek == [ok |-> FALSE, year |-> 0, week |-> 0]
\* _PATTERN.search(base): the name ends, in any letter case, with
\* raw_stats_ + four digits + _wk + one or two digits + .csv
parse_year_week(filename) ==
    LET base == lower(basename(filename))
        Tail_(n) == SubSeq(base, Len(base) - n + 1, Len(base))
        Matches(n) ==
            /\ n <= Len(base)
            /\ SubSeq(Tail_(n), 1, 10) = <<"r","a","w","_","s","t","a","t","s","_">>
            /\ AllDigits(SubSeq(Tail_(n), 11, 14))
            /\ SubSeq(Tail_(n), 15, 17) = <<"_","w","k">>
            /\ AllDigits(SubSeq(Tail_(n), 18, n - 4))
            /\ SubSeq(Tail_(n), n - 3, n) = <<".","c","s","v">>
        Parsed(n) == [ok |-> TRUE, year |-> digits_value(SubSeq(Tail_(n), 11, 14), 0),
                      week |-> digits_value(SubSeq(Tail_(n), 18, n - 4), 0)]
    IN  IF Matches(23) THEN Parsed(23)
        ELSE IF Matches(22) THEN Parsed(22)
        ELSE NoYearWeek

\* glob "raw_stats_*_wk*.csv", letter case kept
glob_raw_stats(name) ==
    /\ StartsWith(name, <<"r","a","w","_","s","t","a","t","s","_">>)
    /\ EndsWith(name, <<".","c","s","v">>)
    /\ \E i \in 11..(Len(name) - 6) : SubSeq(name, i, i + 2) = <<"_","w","k">>

\* `(year, week) > (best[0], best[1])`
later(year, week, best) ==
    year > best.year \/ (year = best.year /\ week > best.week)

NoFileFound == [found |-> FALSE, path |-> <<>>, dated |-> FALSE, year |-> 0, week |-> 0]
FileFound(path, yw) == [found |-> TRUE, path |-> path, dated |-> yw.ok, year |-> yw.year, week |-> yw.week]

RECURSIVE latest_of(_, _)
\* the loop of lines 25-31 over the candidates
latest_of(candidates, best) ==
    IF candidates = <<>> THEN best
    ELSE LET p == Head(candidates)
             yw == parse_year_week(p)
         IN  latest_of(Tail(candidates),
                       IF yw.ok /\ (~best.found \/ later(yw.year, yw.week, best))
                       THEN FileFound(p, yw) ELSE best)

find_latest_raw_stats(listing) ==
    LET names == SelectSeq(listing, glob_raw_stats)
        candidates == [i \in 1..Len(names) |-> <<"d","a","t","a","/">> \o names[i]]
    IN  latest_of(candidates, NoFileFound)

\* a resolver that never raises: an unnamed path when nothing is found
resolve_projection_path_never_raises(preferred, preferred_exists, latest) ==
    IF latest.found THEN latest ELSE FileFound(<<>>, NoYearWeek)

\* resolve_projection_path: the preferred path when it exists, else the latest
\* raw_stats file of data/, else FileNotFoundError
resolve_projection_path(preferred, preferred_exists, latest) ==
    IF Truthy(preferred) /\ preferred_exists
    THEN FileFound(preferred.s, parse_year_week(preferred.s))
    ELSE latest

\* a check that accepts an empty key
api_key_missing_never(api_key) == FALSE

\* `not api_key`
api_key_missing(api_key) == api_key = <<>>

\* the process environment and files a run of main meets
CliEnv(preferred, preferred_exists, listing, api_key, edge_threshold, config_file, projections_ok, env_url) ==
    [PROJECTIONS_PATH |-> preferred, preferred_exists |-> preferred_exists, listing |-> listing,
     ODDS_API_KEY |-> api_key, EDGE_THRESHOLD |-> edge_threshold, config_file |-> config_file,
     projections_ok |-> projections_ok, SLACK_WEBHOOK_URL |-> env_url]
CliStart(env) ==
    [pc |-> "resolve", env |-> env, exit |-> NoExit, error |-> "", log |-> <<>>,
     threshold |-> 0, config_loaded |-> FALSE, projections_loaded |-> FALSE,
     scan_started |-> FALSE, scan_returned |-> FALSE, df_edges |-> NoFrame,
     key_examined |-> FALSE, artifacts_written |-> FALSE]

CliRest == UNCHANGED <<scanVars, offerVars, stakeVars, alert, fs, lib>>
Returned(c, code, message) ==
    [c EXCEPT !.pc = "exited", !.exit = code, !.log = Append(c.log, message)]
Crashed(c, exc) == [c EXCEPT !.pc = "crashed", !.error = exc]

\* lines 193-203
cli_resolve ==
    /\ cli.pc = "resolve"
    /\ LET pref == Or(StrCell(strip(Or(cli.env.PROJECTIONS_PATH, StrCell(<<>>)).s)), None)
           r == resolve_projection_path(pref, cli.env.preferred_exists,
                                        find_latest_raw_stats(cli.env.listing))
       IN  cli' = IF r.found THEN [cli EXCEPT !.pc = "api_key"]
                  ELSE Returned(cli, 1, "No projections file found.")
    /\ CliRest

\* lines 205-208
cli_api_key ==
    /\ cli.pc = "api_key"
    /\ cli' = IF api_key_missing(Or(cli.env.ODDS_API_KEY, StrCell(<<>>)).s)
              THEN Returned([cli EXCEPT !.key_examined = TRUE], 2, "Missing ODDS_API_KEY.")
              ELSE [cli EXCEPT !.pc = "load_config", !.key_examined = TRUE]
    /\ CliRest

\* lines 210-226: the threshold, then load_config, neither inside a try
cli_load_config ==
    /\ cli.pc = "load_config"
    /\ LET th == float_of_str(Or(cli.env.EDGE_THRESHOLD, StrCell(<<"0", ".", "0", "6">>)).s)
       IN  cli' = IF ~th.ok THEN Crashed(cli, "ValueError")
                  ELSE IF cli.env.config_file = "missing" THEN Crashed(cli, "FileNotFoundError")
                  ELSE IF cli.env.config_file = "unparseable" THEN Crashed(cli, "YAMLError")
                  ELSE [cli EXCEPT !.pc = "load_projections", !.threshold = th.n,
                                   !.config_loaded = TRUE]
    /\ CliRest

\* lines 228-249
cli_load_projections ==
    /\ cli.pc = "load_projections"
    /\ cli' = IF cli.env.projections_ok
              THEN [cli EXCEPT !.pc = "scan_edges", !.projections_loaded = TRUE]
              ELSE Crashed(cli, "ParserError")
    /\ CliRest

\* what scan_edges hands back to main
ScanOutcomes ==
    {[raised |-> TRUE, df |-> NoFrame]}
        \cup {[raised |-> FALSE, df |-> Frame(rs)] : rs \in {<<>>, <<EdgeHi>>, <<EdgeLo, EdgeAt>>}}

\* lines 263-270
cli_scan_edges ==
    /\ cli.pc = "scan_edges"
    /\ \E o \in ScanOutcomes :
          cli' = IF o.raised THEN Crashed([cli EXCEPT !.scan_started = TRUE], "HTTPError")
                 ELSE [cli EXCEPT !.pc = "artifacts", !.scan_started = TRUE,
                                  !.scan_returned = TRUE, !.df_edges = o.df]
    /\ CliRest

\* lines 272-298: diagnostics, artifacts, advice, then the call of alert_edges
cli_artifacts ==
    /\ cli.pc = "artifacts"
    /\ alert.pc = "idle"
    /\ cli' = [cli EXCEPT !.pc = "alerting", !.artifacts_written = TRUE]
    /\ alert' = AlertCall(cli.df_edges, cli.threshold, None, cli.env.SLACK_WEBHOOK_URL, None)
    /\ UNCHANGED <<scanVars, offerVars, stakeVars, fs, lib>>

\* line 299, once alert_edges has returned
cli_return ==
    /\ cli.pc = "alerting"
    /\ alert.pc = "returned"
    /\ cli' = [cli EXCEPT !.pc = "exited", !.exit = 0]
    /\ CliRest

InitCli ==
    /\ ScanIdle /\ OfferIdle /\ StakeIdle
    /\ alert = [pc |-> "idle"] /\ fs = [pc |-> "idle"] /\ LibIdle
    /\ \E preferred \in {None, StrCell(<<" ">>), StrCell(<<"p">>)},
          preferred_exists \in BOOLEAN, listing \in {<<>>, <<RawStatsWk9>>},
          api_key \in {None, StrCell(<<>>), StrCell(<<"k">>)},
          edge_threshold \in {None, StrCell(<<"0", ".", "1">>), StrCell(<<"a", "b", "c">>)},
          config_file \in {"ok", "missing", "unparseable"},
          projections_ok \in BOOLEAN,
          env_url \in {None, StrCell(<<"h">>)} :
          cli = CliStart(CliEnv(preferred, preferred_exists, listing, api_key, edge_threshold,
                                config_file, projections_ok, env_url))
NextCli ==
    \/ cli_resolve \/ cli_api_key \/ cli_load_config \/ cli_load_projections
    \/ cli_scan_edges \/ cli_artifacts \/ alert_edges_start \/ alert_post \/ cli_return
SpecCli == InitCli /\ [][NextCli]_vars

\* the run has a projections file: the preferred path exists or data/ holds one
ProjectionsResolvable ==
    \/ (cli.env.PROJECTIONS_PATH = StrCell(<<"p">>) /\ cli.env.preferred_exists)
    \/ cli.env.listing # <<>>
ApiKeyGiven == cli.env.ODDS_API_KEY = StrCell(<<"k">>)
CliEnded == cli.pc \in {"exited", "crashed"}

\* C17: main returns 1 when no projections file can be resolved, 2 when the
\* API key is missing, and 0 on every run whose scan completes, with zero
\* edges or not and whatever alerting did; alerting never changes the exit code.
C17_ExitCodes ==
    /\ (CliEnded /\ ~ProjectionsResolvable) => cli.exit = 1
    /\ (CliEnded /\ ProjectionsResolvable /\ ~ApiKeyGiven) => cli.exit = 2
    /\ (CliEnded /\ cli.scan_returned) => cli.exit = 0
    /\ cli.scan_returned => (cli.pc # "crashed" /\ cli.exit \in {NoExit, 0})
    /\ cli.exit = 1 => ~ProjectionsResolvable
    /\ cli.exit = 2 => ~ApiKeyGiven

\* a run with zero edges whose three posts all failed ends with 0
C17_Witness ==
    /\ cli.pc = "exited" /\ cli.exit = 0
    /\ cli.df_edges = Frame(<<>>)
    /\ alert.pc = "returned" /\ alert.file.written /\ Len(alert.posts) = PostAttempts

\* C18: a missing or unparseable configuration file makes main return a
\* non-zero exit code after a logged message, never an uncaught exception.
C18_NoUncaughtException ==
    (CliEnded /\ cli.env.config_file # "ok" /\ ProjectionsResolvable /\ ApiKeyGiven) =>
        /\ cli.pc = "exited"
        /\ cli.exit \notin {NoExit, 0}
        /\ cli.log # <<>>
        /\ ~cli.projections_loaded /\ ~cli.scan_started

ProjectionsKept == projections' = projections

\* C19: scan_edges never mutates the projections table it is given: through
\* every step of a scan, whether it returns or raises, the caller's table
\* keeps its rows, columns, order and values.
C19_ProjectionsUnchanged == [][ProjectionsKept]_vars

\* a finished scan whose team filter left rows out, the table still whole
C19_Witness ==
    /\ pc = "done"
    /\ ~no_team_filter
    /\ projections = Table(<<DakRow, AllenRow>>)
    /\ df_ev = <<AllenRow>>
    /\ Len(rows) > 0

(***************************************************************************)
(* Firestore export (firestore_push.py push_csv).  Rows are numbered as     *)
(* enumerate numbers them; a batch is the sequence of rows set on it.       *)
(***************************************************************************)
MaxCsvRows == 801
\* rows per committed batch
BatchSize == 400

\* a loop that never commits before the end
batch_full_never(i) == FALSE

\* `i % 400 == 0`
batch_full(i) == i % BatchSize = 0

PushCall(csv_exists) ==
    [pc |-> "open", csv_exists |-> csv_exists, i |-> 0, pushed |-> 0, batch |-> <<>>,
     commits |-> <<>>, error |-> ""]
PushRest == UNCHANGED <<scanVars, offerVars, stakeVars, alert, cli, lib>>

\* lines 14-19: the client, the first batch and the file
push_open ==
    /\ fs.pc = "open"
    /\ fs' = IF fs.csv_exists THEN [fs EXCEPT !.pc = "rows"]
             ELSE [fs EXCEPT !.pc = "raised", !.error = "FileNotFoundError"]
    /\ PushRest

\* lines 20-26: the reader yields one more row; every 400th row commits the batch
push_row ==
    /\ fs.pc = "rows"
    /\ fs.i < MaxCsvRows
    /\ LET i == fs.i + 1
           batch == Append(fs.batch, i)
       IN  IF batch_full(i)
           THEN \E committed \in BOOLEAN :
                   fs' = IF committed
                         THEN [fs EXCEPT !.i = i, !.pushed = i, !.batch = <<>>,
                                         !.commits = Append(@, batch)]
                         ELSE [fs EXCEPT !.i = i, !.pushed = i, !.batch = batch,
                                         !.pc = "raised", !.error = "commit failed"]
           ELSE fs' = [fs EXCEPT !.i = i, !.pushed = i, !.batch = batch]
    /\ PushRest

\* lines 27-28: the reader is exhausted; the last batch is committed
push_end ==
    /\ fs.pc = "rows"
    /\ \E committed \in BOOLEAN :
          fs' = IF committed
                THEN [fs EXCEPT !.pc = "done", !.batch = <<>>, !.commits = Append(@, fs.batch)]
                ELSE [fs EXCEPT !.pc = "raised", !.error = "commit failed"]
    /\ PushRest

InitPush ==
    /\ ScanIdle /\ OfferIdle /\ StakeIdle
    /\ alert = [pc |-> "idle"] /\ cli = [pc |-> "idle"] /\ LibIdle
    /\ \E csv_exists \in BOOLEAN : fs = PushCall(csv_exists)
NextPush == push_open \/ push_row \/ push_end
SpecPush == InitPush /\ [][NextPush]_vars

RECURSIVE Flatten(_)
Flatten(ss) == IF ss = <<>> THEN <<>> ELSE Head(ss) \o Flatten(Tail(ss))
\* the documents the store holds: the rows of the committed batches
Committed == Flatten(fs.commits)
RowsUpTo(n) == [k \in 1..n |-> k]

\* C20: for a CSV of N rows push_csv commits every row exactly once, in
\* batches of at most 400 documents: one commit after every 400th row and one
\* at the end; when a commit fails the error propagates and no later row is
\* committed.
C20_Batching ==
    fs.pc \in {"rows", "done", "raised"} =>
        /\ \A b \in 1..Len(fs.commits) : Len(fs.commits[b]) <= BatchSize
        /\ Committed \o fs.batch = RowsUpTo(fs.i)
        /\ fs.pc = "done" =>
              /\ Committed = RowsUpTo(fs.i)
              /\ Len(fs.commits) = (fs.i \div BatchSize) + 1
              /\ \A b \in 1..(Len(fs.commits) - 1) : Len(fs.commits[b]) = BatchSize
        /\ fs.pc = "rows" => Len(fs.commits) = fs.i \div BatchSize
        /\ (fs.pc = "raised" /\ fs.error = "commit failed") =>
              Len(Committed) = BatchSize * Len(fs.commits)

\* 801 rows: two full batches and a remainder of one
C20_Witness ==
    /\ fs.pc = "done"
    /\ fs.i = 2 * BatchSize + 1
    /\ Len(fs.commits) = 3
    /\ fs.commits[3] = <<2 * BatchSize + 1>>

(***************************************************************************)
(* resolve_projection_path over directory listings and preferred paths      *)
(***************************************************************************)
MaxFiles == 2
FileNames == {RawStatsWk9, RawStatsWk09, RawStatsWk10, RawStats2024, RawStatsShortYear,
              RawStatsUpper, NotesCsv}
Listings == {l \in SeqsUpTo(FileNames, MaxFiles) : \A i, j \in 1..Len(l) : l[i] = l[j] => i = j}
PreferredPaths == {None, StrCell(<<>>), StrCell(<<"m","y",".","c","s","v">>), StrCell(<<"o","l","d","/","r","a","w","_","s","t","a","t","s","_","2","0","2","3","_","w","k","1",".","c","s","v">>)}

LibRest == UNCHANGED <<scanVars, offerVars, stakeVars, alert, cli, fs>>

\* one call resolve_projection_path(preferred) with data/ holding the listing
lib_resolve_projection_path ==
    /\ lib.pc = "resolve_projection_path"
    /\ lib' = [lib EXCEPT !.pc = "resolved",
                          !.result = resolve_projection_path(lib.preferred, lib.preferred_exists,
                                                             find_latest_raw_stats(lib.listing))]
    /\ LibRest

InitFinder ==
    /\ ScanIdle /\ OfferIdle /\ StakeIdle
    /\ alert = [pc |-> "idle"] /\ cli = [pc |-> "idle"] /\ fs = [pc |-> "idle"]
    /\ \E preferred \in PreferredPaths, preferred_exists \in BOOLEAN, listing \in Listings :
          lib = [pc |-> "resolve_projection_path", preferred |-> preferred,
                 preferred_exists |-> preferred_exists, listing |-> listing,
                 result |-> NoFileFound]
SpecFinder == InitFinder /\ [][lib_resolve_projection_path]_vars

\* the (year, week) a name carries under raw_stats_<year>_wk<week>.csv, letter
\* case ignored; <<>> when the name is not of that form
ConventionPair(name) ==
    CASE name = RawStatsWk9 -> <<2025, 9>>
      [] name = RawStatsWk09 -> <<2025, 9>>
      [] name = RawStatsWk10 -> <<2025, 10>>
      [] name = RawStats2024 -> <<2024, 18>>
      [] name = RawStatsUpper -> <<2026, 1>>
      [] name = <<"o","l","d","/","r","a","w","_","s","t","a","t","s","_","2","0","2","3","_","w","k","1",".","c","s","v">> -> <<2023, 1>>
      [] OTHER -> <<>>
PairGE(a, b) == a[1] > b[1] \/ (a[1] = b[1] /\ a[2] >= b[2])
UsablePreferred == lib.preferred.k = "str" /\ lib.preferred.s # <<>> /\ lib.preferred_exists
MatchingFiles == {i \in 1..Len(lib.listing) : ConventionPair(lib.listing[i]) # <<>>}

\* C21: an existing preferred path is returned unchanged with the year and
\* week of its name (none when the name is not raw_stats_<year>_wk<week>.csv);
\* otherwise the result is the file of data/ named by the convention with the
\* greatest (year, week), compared as integers, year first; NotFound is raised
\* exactly when there is neither a usable preferred path nor such a file.
C21_Resolve ==
    lib.pc = "resolved" =>
        IF UsablePreferred
        THEN /\ lib.result.found
             /\ lib.result.path = lib.preferred.s
             /\ lib.result.dated = (ConventionPair(lib.preferred.s) # <<>>)
             /\ lib.result.dated => <<lib.result.year, lib.result.week>> = ConventionPair(lib.preferred.s)
        ELSE /\ lib.result.found = (MatchingFiles # {})
             /\ lib.result.found =>
                   \E i \in MatchingFiles :
                       /\ lib.result.path = <<"d","a","t","a","/">> \o lib.listing[i]
                       /\ <<lib.result.year, lib.result.week>> = ConventionPair(lib.listing[i])
                       /\ \A j \in MatchingFiles :
                             PairGE(ConventionPair(lib.listing[i]), ConventionPair(lib.listing[j]))

(***************************************************************************)
(* Market key synonyms (market_utils.py).  Keys are character sequences.    *)
(***************************************************************************)
MaxColumns == 3
\* the characters of market keys in code point order
KeyChars == <<"_">> \o LowerChars
RECURSIVE str_less(_, _)
\* a < b for str
str_less(a, b) ==
    IF b = <<>> THEN FALSE
    ELSE IF a = <<>> THEN TRUE
    ELSE IF Head(a) = Head(b) THEN str_less(Tail(a), Tail(b))
    ELSE IndexIn(Head(a), KeyChars) < IndexIn(Head(b), KeyChars)
RECURSIVE sorted_strs(_)
\* sorted(set of str)
sorted_strs(S) ==
    IF S = {} THEN <<>>
    ELSE LET m == CHOOSE x \in S : \A y \in S \ {x} : str_less(x, y)
         IN  <<m>> \o sorted_strs(S \ {m})

\* alias, canonical key, in the order of the dict literal
MARKET_KEY_ALIASES ==
    << <<<<"p","l","a","y","e","r","_","p","a","s","s","_","y","a","r","d","s">>, <<"p","l","a","y","e","r","_","p","a","s","s","_","y","d","s">>>>,
       <<<<"p","l","a","y","e","r","_","p","a","s","s","_","t","o","u","c","h","d","o","w","n","s">>, <<"p","l","a","y","e","r","_","p","a","s","s","_","t","d","s">>>>,
       <<<<"p","l","a","y","e","r","_","r","u","s","h","_","y","a","r","d","s">>, <<"p","l","a","y","e","r","_","r","u","s","h","_","y","d","s">>>>,
       <<<<"p","l","a","y","e","r","_","r","u","s","h","_","t","o","u","c","h","d","o","w","n","s">>, <<"p","l","a","y","e","r","_","r","u","s","h","_","t","d","s">>>>,
       <<<<"p","l","a","y","e","r","_","r","e","c","e","i","v","i","n","g","_","y","a","r","d","s">>, <<"p","l","a","y","e","r","_","r","e","c","e","p","t","i","o","n","_","y","d","s">>>>,
       <<<<"p","l","a","y","e","r","_","r","e","c","e","i","v","i","n","g","_","t","o","u","c","h","d","o","w","n","s">>, <<"p","l","a","y","e","r","_","r","e","c","e","p","t","i","o","n","_","t","d","s">>>>,
       <<<<"p","l","a","y","e","r","_","p","a","s","s","_","r","u","s","h","_","y","a","r","d","s">>, <<"p","l","a","y","e","r","_","p","a","s","s","_","r","u","s","h","_","y","d","s">>>>,
       <<<<"p","l","a","y","e","r","_","p","a","s","s","_","r","u","s","h","_","r","e","c","e","p","t","i","o","n","_","y","a","r","d","s">>, <<"p","l","a","y","e","r","_","p","a","s","s","_","r","u","s","h","_","r","e","c","e","p","t","i","o","n","_","y","d","s">>>>,
       <<<<"p","l","a","y","e","r","_","p","a","s","s","_","r","u","s","h","_","r","e","c","e","p","t","i","o","n","_","t","o","u","c","h","d","o","w","n","s">>, <<"p","l","a","y","e","r","_","p","a","s","s","_","r","u","s","h","_","r","e","c","e","p","t","i","o","n","_","t","d","s">>>> >>

\* dict.get(key, default) on a function
DictGet(d, key, default) == IF key \in DOMAIN d THEN d[key] ELSE default
_CANONICAL_LOOKUP ==
    LET aliases == {MARKET_KEY_ALIASES[i][1] : i \in 1..Len(MARKET_KEY_ALIASES)}
        canon == {MARKET_KEY_ALIASES[i][2] : i \in 1..Len(MARKET_KEY_ALIASES)}
    IN  [k \in aliases \cup canon |->
            IF k \in aliases
            THEN (CHOOSE p \in Range(MARKET_KEY_ALIASES) : p[1] = k)[2]
            ELSE k]
\* one _union(a, b) on the synonym table
_union(syn, a, b) ==
    LET merged == DictGet(syn, a, {a}) \cup DictGet(syn, b, {b})
    IN  [k \in DOMAIN syn \cup merged |-> IF k \in merged THEN merged ELSE syn[k]]
RECURSIVE union_all(_, _)
union_all(pairs, syn) ==
    IF pairs = <<>> THEN syn
    ELSE union_all(Tail(pairs), _union(syn, Head(pairs)[1], Head(pairs)[2]))
_MARKET_SYNONYMS == union_all(MARKET_KEY_ALIASES, [k \in {} |-> {}])

canonical_market_key(key) == DictGet(_CANONICAL_LOOKUP, key, key)
market_synonyms(key) ==
    LET canonical == canonical_market_key(key)
        synonyms == DictGet(_MARKET_SYNONYMS, key, {key})
                        \cup DictGet(_MARKET_SYNONYMS, canonical, {canonical})
                        \cup {key, canonical}
    IN  {k \in synonyms : k # <<>>}

RECURSIVE unseen(_, _)
\* the candidates not yet seen, in order, each once
unseen(cands, seen) ==
    IF cands = <<>> THEN <<>>
    ELSE IF Head(cands) # <<>> /\ Head(cands) \notin seen
    THEN <<Head(cands)>> \o unseen(Tail(cands), seen \cup {Head(cands)})
    ELSE unseen(Tail(cands), seen)

\* an iteration in alphabetical order only
iter_market_synonyms_sorted(key) == unseen(sorted_strs(market_synonyms(key)), {})

\* key, its canonical form, then the remaining synonyms in sorted order
iter_market_synonyms(key) ==
    unseen(<<key, canonical_market_key(key)>> \o sorted_strs(market_synonyms(key)), {})

NoColumn == [found |-> FALSE, column |-> <<>>]
resolve_market_column(columns, market_key) ==
    LET cands == iter_market_synonyms(market_key)
        hits == {i \in 1..Len(cands) : cands[i] \in columns}
    IN  IF hits = {} THEN NoColumn
        ELSE [found |-> TRUE, column |-> cands[CHOOSE i \in hits : \A j \in hits : i <= j]]

MarketKeys == {<<"p","l","a","y","e","r","_","p","a","s","s","_","y","d","s">>, <<"p","l","a","y","e","r","_","p","a","s","s","_","y","a","r","d","s">>, <<"p","l","a","y","e","r","_","r","u","s","h","_","y","a","r","d","s">>,
               <<"p","l","a","y","e","r","_","r","e","c","e","p","t","i","o","n","s">>, <<"p","l","a","y","e","r","_","p","a","s","s","_","r","u","s","h","_","y","d","s">>, <<>>}
ColumnNames == {<<"p","l","a","y","e","r">>, <<"p","l","a","y","e","r","_","p","a","s","s","_","y","d","s">>, <<"p","l","a","y","e","r","_","p","a","s","s","_","y","a","r","d","s">>, <<"p","l","a","y","e","r","_","r","u","s","h","_","y","d","s">>,
                <<"p","l","a","y","e","r","_","r","e","c","e","p","t","i","o","n","s">>, <<>>}

lib_resolve_market_column ==
    /\ lib.pc = "resolve_market_column"
    /\ lib' = [lib EXCEPT !.pc = "resolved",
                          !.result = resolve_market_column(lib.columns, lib.market_key)]
    /\ LibRest

InitMarkets ==
    /\ ScanIdle /\ OfferIdle /\ StakeIdle
    /\ alert = [pc |-> "idle"] /\ cli = [pc |-> "idle"] /\ fs = [pc |-> "idle"]
    /\ \E columns \in {c \in SUBSET ColumnNames : Cardinality(c) <= MaxColumns},
          market_key \in MarketKeys :
          lib = [pc |-> "resolve_market_column", columns |-> columns, market_key |-> market_key,
                 result |-> NoColumn]
SpecMarkets == InitMarkets /\ [][lib_resolve_market_column]_vars

\* the alias pairs of the module, as a relation
AliasOf(a, b) == \E i \in 1..Len(MARKET_KEY_ALIASES) : MARKET_KEY_ALIASES[i] = <<a, b>>
Synonym(a, b) == a = b \/ AliasOf(a, b) \/ AliasOf(b, a)
CanonicalOf(k) == IF \E c \in MarketKeys \cup ColumnNames : AliasOf(k, c)
                  THEN CHOOSE c \in MarketKeys \cup ColumnNames : AliasOf(k, c) ELSE k
\* the column the preference order picks for the call in lib
Preferred(key, columns) ==
    IF key \in columns THEN key
    ELSE IF CanonicalOf(key) \in columns THEN CanonicalOf(key)
    ELSE CHOOSE c \in columns : Synonym(key, c) /\ \A d \in columns : Synonym(key, d) => ~str_less(d, c)
SynonymsClosed ==
    \A a, b, c \in (MarketKeys \cup ColumnNames) \ {<<>>} :
        /\ (b \in market_synonyms(a)) = (a \in market_synonyms(b))
        /\ (b \in market_synonyms(a) /\ c \in market_synonyms(b)) => c \in market_synonyms(a)

\* C22 as stated, for every key: the result is the synonym of key picked by
\* the order key, canonical form, alphabetically first other synonym; not-found
\* if and only if no synonym of key, key included, is a column.
C22_ResolveAnyKey ==
    lib.pc = "resolved" =>
        /\ lib.result.found = (\E c \in lib.columns : Synonym(lib.market_key, c))
        /\ lib.result.found => lib.result.column = Preferred(lib.market_key, lib.columns)

\* C22: for every non-empty key, resolve_market_column returns the column that
\* is a synonym of key picked by the order key, canonical form, alphabetically
\* first other synonym; not-found if and only if no synonym of key, key
\* included, is a column; synonym sets are symmetric and transitive.
C22_Resolve ==
    (lib.pc = "resolved" /\ lib.market_key # <<>>) =>
        /\ lib.result.found = (\E c \in lib.columns : Synonym(lib.market_key, c))
        /\ lib.result.found =>
              /\ lib.result.column \in lib.columns
              /\ lib.result.column = Preferred(lib.market_key, lib.columns)
        /\ SynonymsClosed

\* a canonical key resolved to its alias column, the only synonym present
C22_Witness ==
    /\ lib.pc = "resolved"
    /\ lib.market_key = <<"p","l","a","y","e","r","_","p","a","s","s","_","y","d","s">>
    /\ lib.columns = {<<"p","l","a","y","e","r">>, <<"p","l","a","y","e","r","_","p","a","s","s","_","y","a","r","d","s">>, <<"p","l","a","y","e","r","_","r","u","s","h","_","y","d","s">>}
    /\ lib.result = [found |-> TRUE, column |-> <<"p","l","a","y","e","r","_","p","a","s","s","_","y","a","r","d","s">>]

(***************************************************************************)
(* estimate_credits over event counts, market lists and regions strings     *)
(***************************************************************************)
MaxEstEvents == 6
RegionInputs == {<<>>, <<"u","s">>, <<"u","s",",","u","s","2">>, <<"u","s",",","u","s","2",",","e","u">>}

lib_estimate_credits ==
    /\ lib.pc = "estimate_credits"
    /\ lib' = [lib EXCEPT !.pc = "resolved",
                          !.result = estimate_credits(lib.num_events, lib.markets, lib.regions)]
    /\ LibRest

InitCredits ==
    /\ ScanIdle /\ OfferIdle /\ StakeIdle
    /\ alert = [pc |-> "idle"] /\ cli = [pc |-> "idle"] /\ fs = [pc |-> "idle"]
    /\ \E num_events \in 0..MaxEstEvents, markets \in MarketLists, regions \in RegionInputs :
          lib = [pc |-> "estimate_credits", num_events |-> num_events, markets |-> markets,
                 regions |-> regions, result |-> 0]
SpecCredits == InitCredits /\ [][lib_estimate_credits]_vars

\* the number of comma-separated regions named by a regions string
RegionsNamed(regions) ==
    CASE regions = <<"u","s">> -> 1
      [] regions = <<"u","s",",","u","s","2">> -> 2
      [] regions = <<"u","s",",","u","s","2",",","e","u">> -> 3
      [] OTHER -> 0

\* C23: estimate_credits(numEvents, markets, regions) equals
\* numEvents x max(1, number of markets) x max(1, number of regions), so an
\* empty market list gives numEvents x regions, not 0.
C23_Estimate ==
    lib.pc = "resolved" =>
        lib.result = lib.num_events * Max(1, Len(lib.markets)) * Max(1, RegionsNamed(lib.regions))

(***************************************************************************)
(* The cleaning pipeline (cleaning.py).  A frame has its columns in order   *)
(* and its rows as functions from column name to cell.                      *)
(***************************************************************************)
MaxCleanRows == 2

_KEEP_POS == {<<"Q","B">>, <<"R","B">>, <<"W","R">>, <<"T","E">>}
_DROP_COLS ==
    {"two_pts", "two_pts_sd", "return_tds", "return_tds_sd",
     "fg_0019", "fg_0019_sd", "fg_2029", "fg_2029_sd", "fg_3039", "fg_3039_sd",
     "fg_4049", "fg_4049_sd", "fg_50", "fg_50_sd", "xp", "xp_sd",
     "dst_int", "dst_int_sd", "dst_sacks", "dst_sacks_sd", "dst_safety", "dst_safety_sd",
     "dst_td", "dst_td_sd", "dst_blk", "dst_blk_sd",
     "idp_solo", "idp_solo_sd", "idp_sack", "idp_sack_sd", "idp_int", "idp_int_sd",
     "idp_pd", "idp_pd_sd", "idp_td", "idp_td_sd",
     "birthdate", "draft_year", "injury_status", "injury_details"}
\* alias, market, in the order of the dict literal
_MARKET_MAP ==
    << <<"pass_yds", "player_pass_yds">>, <<"pass_tds", "player_pass_tds">>,
       <<"rush_yds", "player_rush_yds">>, <<"rush_tds", "player_rush_tds">>,
       <<"rec_yds", "player_reception_yds">>, <<"rec_tds", "player_reception_tds">>,
       <<"rec", "player_receptions">>, <<"pass_rush_yds", "player_pass_rush_yds">> >>
MarketMapValues == [i \in 1..Len(_MARKET_MAP) |-> _MARKET_MAP[i][2]]
sd_of(c) == c \o "_sd"
NA_TOKENS == {<<"N","A">>, <<"N","a","N">>, <<"N","o","n","e">>, <<>>, <<"n","u","l","l">>, <<"N","u","l","l">>, <<"N","U","L","L">>}

HasCol(t, c) == c \in Range(t.columns)
Present(t, cs) == SelectSeq(cs, LAMBDA c : HasCol(t, c))
IsNA(x) == x.k \in {"nan", "none"}
\* df[c] = values: a new column goes last, an existing one keeps its place
SetColumn(t, c, value(_)) ==
    [columns |-> IF HasCol(t, c) THEN t.columns ELSE Append(t.columns, c),
     rows |-> [i \in 1..Len(t.rows) |->
                  [d \in DOMAIN t.rows[i] \cup {c} |->
                      IF d = c THEN value(t.rows[i]) ELSE t.rows[i][d]]]]
\* df[cols]
SelectColumns(t, cs) ==
    [columns |-> cs,
     rows |-> [i \in 1..Len(t.rows) |-> [d \in Range(cs) |-> t.rows[i][d]]]]
MapCells(t, f(_, _)) ==
    [columns |-> t.columns,
     rows |-> [i \in 1..Len(t.rows) |-> [d \in DOMAIN t.rows[i] |-> f(d, t.rows[i][d])]]]

\* the canonical names and their alternates, in order
NormalizeAlts ==
    << <<"player", <<"Player", "PLAYER", "name", "Name">> >>,
       <<"team", <<"Team", "TEAM">> >>,
       <<"pos", <<"position", "Position", "POS", "Pos">> >> >>
\* the new name of column c: the first alternate present takes the canonical
\* name when that name is not a column
renamed(t, c) ==
    LET hits == {i \in 1..Len(NormalizeAlts) :
                    /\ ~HasCol(t, NormalizeAlts[i][1])
                    /\ Present(t, NormalizeAlts[i][2]) # <<>>
                    /\ Head(Present(t, NormalizeAlts[i][2])) = c}
    IN  IF hits = {} THEN c ELSE NormalizeAlts[CHOOSE i \in hits : TRUE][1]
_normalize_columns(t) ==
    [columns |-> [i \in 1..Len(t.columns) |-> renamed(t, t.columns[i])],
     rows |-> [i \in 1..Len(t.rows) |->
                  [d \in {renamed(t, c) : c \in Range(t.columns)} |->
                      t.rows[i][CHOOSE c \in Range(t.columns) : renamed(t, c) = d]]]]

\* str(value).upper() of a pos cell
pos_text(x) == IF x.k = "str" THEN upper(x.s) ELSE <<"N","A","N">>
filter_positions(t) ==
    [t EXCEPT !.rows = SelectSeq(t.rows, LAMBDA r : pos_text(r["pos"]) \in _KEEP_POS)]
drop_columns(t) == SelectColumns(t, SelectSeq(t.columns, LAMBDA c : c \notin _DROP_COLS))

RECURSIVE add_market_columns_from(_, _)
add_market_columns_from(t, pairs) ==
    IF pairs = <<>> THEN t
    ELSE LET alias == Head(pairs)[1]
             market == Head(pairs)[2]
             t1 == IF ~HasCol(t, market) /\ HasCol(t, alias)
                   THEN SetColumn(t, market, LAMBDA r : r[alias]) ELSE t
             t2 == IF ~HasCol(t1, sd_of(market)) /\ HasCol(t1, sd_of(alias))
                   THEN SetColumn(t1, sd_of(market), LAMBDA r : r[sd_of(alias)]) ELSE t1
         IN  add_market_columns_from(t2, Tail(pairs))
_add_market_columns(t) == add_market_columns_from(t, _MARKET_MAP)

\* pd.to_numeric(errors="coerce") of one cell
to_numeric(x) ==
    IF x.k = "num" THEN x
    ELSE IF x.k = "str" /\ int_of_str(x.s).ok THEN NumCell(int_of_str(x.s).n)
    ELSE NaN
_coerce_numeric(t) ==
    LET numeric_cols == Range(MarketMapValues) \cup {sd_of(c) : c \in Range(MarketMapValues)}
        replaced(x) == IF x.k = "str" /\ x.s \in NA_TOKENS THEN NaN ELSE x
    IN  MapCells(t, LAMBDA c, x : IF c \in numeric_cols THEN to_numeric(replaced(x))
                                  ELSE replaced(x))

RECURSIVE SumCells(_, _, _)
\* df[cols].fillna(0).sum(axis=1) for one row, of the values or of their squares
SumCells(r, cols, squared) ==
    IF cols = <<>> THEN 0
    ELSE LET n == IF r[Head(cols)].k = "num" THEN r[Head(cols)].n ELSE 0
         IN  (IF squared THEN n * n ELSE n) + SumCells(r, Tail(cols), squared)
\* lines 183-201: a combination and its standard deviation from the components present
add_combination(t, combo, parts) ==
    LET comps == Present(t, parts)
        t1 == IF ~HasCol(t, combo) /\ comps # <<>>
              THEN SetColumn(t, combo, LAMBDA r : NumCell(SumCells(r, comps, FALSE))) ELSE t
        sd_comps == Present(t1, [i \in 1..Len(parts) |-> sd_of(parts[i])])
    IN  IF ~HasCol(t1, sd_of(combo)) /\ sd_comps # <<>>
        THEN SetColumn(t1, sd_of(combo), LAMBDA r : NumCell(isqrt(SumCells(r, sd_comps, TRUE))))
        ELSE t1
add_combinations(t) ==
    add_combination(add_combination(t, "player_pass_rush_yds",
                                    <<"player_pass_yds", "player_rush_yds">>),
                    "player_pass_rush_reception_yds",
                    <<"player_pass_yds", "player_rush_yds", "player_reception_yds">>)

RECURSIVE dedupe(_, _)
\* list(dict.fromkeys(xs))
dedupe(xs, seen) ==
    IF xs = <<>> THEN <<>>
    ELSE IF Head(xs) \in seen THEN dedupe(Tail(xs), seen)
    ELSE <<Head(xs)>> \o dedupe(Tail(xs), seen \cup {Head(xs)})
keep_market_columns(t) ==
    dedupe(Present(t, MarketMapValues)
               \o Present(t, <<"player_pass_rush_yds", "player_pass_rush_reception_yds">>), {})

\* the other columns in the opposite order
preserved_others_reversed(t, kept) ==
    LET others == SelectSeq(t.columns, LAMBDA c : c \notin _DROP_COLS /\ c \notin kept)
    IN  [i \in 1..Len(others) |-> others[Len(others) + 1 - i]]

\* lines 221-225: the columns that are neither dropped nor kept, in table order
preserved_others(t, kept) ==
    SelectSeq(t.columns, LAMBDA c : c \notin _DROP_COLS /\ c \notin kept)

\* lines 207-232: column selection, then rows with every kept market missing go
select_and_prune(t) ==
    LET keep_base == Present(t, <<"player", "team", "pos", "id", "avg_type", "season_year", "week">>)
        keep_m == keep_market_columns(t)
        keep_markets_sd == Present(t, [i \in 1..Len(keep_m) |-> sd_of(keep_m[i])])
        kept == keep_base \o keep_m \o keep_markets_sd
        final == SelectColumns(t, kept \o preserved_others(t, Range(kept)))
    IN  IF keep_m # <<>>
        THEN [final EXCEPT !.rows = SelectSeq(final.rows,
                                LAMBDA r : \E c \in Range(keep_m) : ~IsNA(r[c]))]
        ELSE final

NoTable == [columns |-> <<>>, rows |-> <<>>]
clean_projections(df_in) ==
    LET normalized == _normalize_columns(df_in)
    IN  IF ~HasCol(normalized, "pos") THEN [raised |-> TRUE, table |-> NoTable]
        ELSE [raised |-> FALSE,
              table |-> select_and_prune(add_combinations(_coerce_numeric(
                            _add_market_columns(drop_columns(filter_positions(normalized))))))]

\* raw tables: provider headers with aliases, a canonical table with standard
\* deviations, a table without a position column, a receptions-only table
RowsAliases ==
    {("Player" :> StrCell(JoshAllen)) @@ ("TEAM" :> StrCell(<<"B","U","F">>)) @@ ("position" :> pos)
        @@ ("pass_yds" :> pass) @@ ("rush_yds" :> NaN) @@ ("rec_yds" :> rec) @@ ("xp" :> NumCell(1)) :
        pos \in {StrCell(<<"Q","B">>), StrCell(<<"w","r">>), StrCell(<<"K">>)},
        pass \in {NumCell(200), NaN, StrCell(<<"N","A">>)},
        rec \in {NumCell(30), NaN}}
RowsCanonical ==
    {("notes" :> StrCell(<<"n","u","l","l">>)) @@ ("player" :> StrCell(DakPrescott)) @@ ("team" :> StrCell(<<"D","A","L">>))
        @@ ("pos" :> pos) @@ ("player_pass_yds" :> pass) @@ ("player_rush_yds" :> rush)
        @@ ("player_pass_yds_sd" :> NumCell(4)) @@ ("player_rush_yds_sd" :> NumCell(3))
        @@ ("week" :> NumCell(3)) @@ ("extra" :> StrCell(<<"x">>)) :
        pos \in {StrCell(<<"Q","B">>), StrCell(<<"K">>)},
        pass \in {NumCell(200), NaN, StrCell(<<"7">>)},
        rush \in {NumCell(30), NaN}}
RowsNoPos ==
    {("player" :> StrCell(JoshAllen)) @@ ("team" :> StrCell(<<"B","U","F">>)) @@ ("rec" :> rec) :
        rec \in {NumCell(4), NaN}}
RowsReceptions ==
    {("name" :> StrCell(JoshAllen)) @@ ("Name" :> StrCell(<<"J">>)) @@ ("pos" :> pos)
        @@ ("rec" :> rec) @@ ("rec_sd" :> NumCell(2)) :
        pos \in {StrCell(<<"T","E">>), StrCell(<<"K">>)},
        rec \in {NumCell(4), NaN, StrCell(<<"a","b","c">>)}}
RawTables ==
    {[columns |-> <<"Player", "TEAM", "position", "pass_yds", "rush_yds", "rec_yds", "xp">>,
      rows |-> rs] : rs \in SeqsUpTo(RowsAliases, MaxCleanRows)}
    \cup {[columns |-> <<"notes", "player", "team", "pos", "player_pass_yds", "player_rush_yds",
                         "player_pass_yds_sd", "player_rush_yds_sd", "week", "extra">>,
           rows |-> rs] : rs \in SeqsUpTo(RowsCanonical, MaxCleanRows)}
    \cup {[columns |-> <<"player", "team", "rec">>, rows |-> rs] :
             rs \in SeqsUpTo(RowsNoPos, MaxCleanRows)}
    \cup {[columns |-> <<"name", "Name", "pos", "rec", "rec_sd">>, rows |-> rs] :
             rs \in SeqsUpTo(RowsReceptions, MaxCleanRows)}

NoCleaned == [raised |-> FALSE, table |-> NoTable]
\* clean_projections(df_in)
lib_clean ==
    /\ lib.pc = "clean_projections"
    /\ LET out == clean_projections(lib.df_in)
       IN  lib' = [lib EXCEPT !.pc = IF out.raised THEN "raised" ELSE "cleaned", !.once = out]
    /\ LibRest
\* clean_projections applied to its own output
lib_clean_again ==
    /\ lib.pc = "cleaned"
    /\ lib' = [lib EXCEPT !.pc = "recleaned", !.twice = clean_projections(lib.once.table)]
    /\ LibRest

InitClean ==
    /\ ScanIdle /\ OfferIdle /\ StakeIdle
    /\ alert = [pc |-> "idle"] /\ cli = [pc |-> "idle"] /\ fs = [pc |-> "idle"]
    /\ \E df_in \in RawTables :
          lib = [pc |-> "clean_projections", df_in |-> df_in, once |-> NoCleaned, twice |-> NoCleaned]
NextClean == lib_clean \/ lib_clean_again
SpecClean == InitClean /\ [][NextClean]_vars

\* C24: for every raw table that clean_projections accepts, cleaning its
\* output again returns an identical table: the same rows in the same order,
\* the same columns in the same order, the same values.
C24_Idempotent ==
    lib.pc = "recleaned" => (~lib.twice.raised /\ lib.twice.table = lib.once.table)

\* a table whose first cleaning renamed, dropped, backfilled, derived and pruned
C24_Witness ==
    /\ lib.pc = "recleaned"
    /\ lib.df_in.columns = <<"notes", "player", "team", "pos", "player_pass_yds", "player_rush_yds",
                             "player_pass_yds_sd", "player_rush_yds_sd", "week", "extra">>
    /\ Len(lib.df_in.rows) = 2
    /\ Len(lib.once.table.rows) = 1
    /\ lib.once.table.columns # lib.df_in.columns
    /\ lib.once.table.rows[1]["player_pass_rush_reception_yds"] = NumCell(37)
    /\ lib.once.table.rows[1]["player_pass_rush_yds_sd"] = NumCell(5)
    /\ lib.twice = lib.once

CanonicalMarkets ==
    {"player_pass_yds", "player_pass_tds", "player_rush_yds", "player_rush_tds",
     "player_reception_yds", "player_reception_tds", "player_receptions"}
\* a row of the cleaned table with every canonical market missing
AllMarketsMissing(r) == \A c \in CanonicalMarkets \cap DOMAIN r : IsNA(r[c])

\* C25: the cleaned table holds no row for which every canonical market
\* column (pass, rush and reception yards and touchdowns, receptions) is
\* missing, also when the pipeline derived the combination columns itself.
C25_NoEmptyRows ==
    lib.pc = "cleaned" =>
        \A i \in 1..Len(lib.once.table.rows) : ~AllMarketsMissing(lib.once.table.rows[i])

\* the base columns of the three-way yardage combination
YardageBases == {"player_pass_yds", "player_rush_yds", "player_reception_yds"}
\* the columns a raw table provides for them, directly or by alias
ProvidedBases ==
    {c \in YardageBases :
        \/ HasCol(lib.df_in, c)
        \/ \E i \in 1..Len(_MARKET_MAP) : _MARKET_MAP[i][2] = c /\ HasCol(lib.df_in, _MARKET_MAP[i][1])}

\* C26: player_pass_rush_reception_yds is derived only when the column is
\* absent and all three base columns are present; with a base column absent
\* the combination column is not created.
C26_CombinationNeedsAllBases ==
    (lib.pc = "cleaned" /\ ~HasCol(lib.df_in, "player_pass_rush_reception_yds")) =>
        (HasCol(lib.once.table, "player_pass_rush_reception_yds") <=> ProvidedBases = YardageBases)

\* whether the team of a projection row plays in an event
PlaysIn(r, e) ==
    \/ r["team"] = StrCell(<<"B","U","F">>) /\ e.id \in {"evA", "evB"}
    \/ r["team"] = StrCell(<<"D","A","L">>) /\ e.id = "evB"
MatchingRows(e) == SelectSeq(projections.rows, LAMBDA r : PlaysIn(r, e))
\* the rows the scan owes an event
RowsOwed(e) ==
    IF no_team_filter \/ MatchingRows(e) = <<>> THEN projections.rows ELSE MatchingRows(e)
\* the events whose rows have been picked so far, in order
HandledEvents ==
    Take(SelectSeq(events, LAMBDA e : provider.odds[e.id].bookmakers # <<>>), diag.events_used)
EmptyFilterEvents ==
    {i \in 1..Len(HandledEvents) : ~no_team_filter /\ MatchingRows(HandledEvents[i]) = <<>>}

\* C27: with filtering enabled only the rows whose team plays in the event
\* are scanned for it; when no row does, the whole table is scanned and
\* team_filter_yielded_empty is counted once for that event; with
\* NO_TEAM_FILTER every row is scanned and the counter stays at zero.
C27_TeamFilter ==
    /\ pc = "rows" => df_ev = RowsOwed(ev.event)
    /\ pc \in {"loop", "rows", "finish", "done"} =>
          Count(diag.reasons, Reason("team_filter_yielded_empty", "", ""))
              = Cardinality(EmptyFilterEvents)
    /\ (pc = "done" /\ diag.events_used > 0) => df_ev # <<>>

\* a finished scan of a table whose only row plays in no listed event with odds
C27_Witness ==
    /\ pc = "done"
    /\ ~no_team_filter
    /\ projections = Table(<<DakRow>>)
    /\ diag.events_used = 1
    /\ df_ev = <<DakRow>>
    /\ Count(diag.reasons, Reason("team_filter_yielded_empty", "", "")) = 1

NoBookmakers == Count(diag.reasons, Reason("no_bookmakers_for_event", "", ""))
ListedIds == {events[i].id : i \in 1..Len(events)}
Completed == pc = "done" /\ markets_list # <<>>

\* C28 as stated: at the end of a completed scan events_used plus the
\* no_bookmakers_for_event count equals the 'events' total, also when two
\* listed events share an id.
C28_EveryListedEventCounted ==
    Completed => (diag.events_used <= diag.events /\ diag.events_used + NoBookmakers = diag.events)

\* C28: at the end of every scan that completes with a non-empty market list,
\* events_used <= events, 'events' is the number of events listed, and
\* events_used plus no_bookmakers_for_event is the number of distinct event
\* ids listed: each id is counted once, as used or as skipped.
C28_EveryEventIdCounted ==
    Completed =>
        /\ diag.events = Len(events)
        /\ diag.events_used <= diag.events
        /\ diag.events_used + NoBookmakers = Cardinality(ListedIds)

\* one event without bookmakers and one used
C28_Witness ==
    /\ Completed
    /\ events = <<EventA, EventB>>
    /\ NoBookmakers = 1
    /\ diag.events_used = 1
    /\ diag.events = 2

\* C29: whenever the credit ceiling is at least events x regions, the credit
\* estimate of the market list the scan uses (events x markets used x
\* regions) does not exceed the ceiling, for any number of regions.
C29_BudgetBound ==
    (Budgeted /\ max_calls >= Len(events) * RegionCount) =>
        estimate_credits(Len(events), markets_list, cfg.regions) <= max_calls

\* nothing of the run beyond the fatal checks has happened
NothingDone ==
    /\ ~cli.config_loaded /\ ~cli.projections_loaded
    /\ ~cli.scan_started /\ ~cli.artifacts_written
    /\ alert.pc = "idle"

\* C30: when ODDS_API_KEY is missing, main returns 2 without any provider
\* request, without loading the configuration or the projections, without
\* writing an artifact and without calling alerting; when no projections file
\* can be resolved main returns 1 before the API key is examined, so a run
\* missing both returns 1.
C30_FatalChecksOrder ==
    /\ ~cli.key_examined => NothingDone
    /\ (cli.key_examined /\ ~ApiKeyGiven) => (cli.pc = "exited" /\ cli.exit = 2 /\ NothingDone)
    /\ (CliEnded /\ ProjectionsResolvable /\ ~ApiKeyGiven) => (cli.exit = 2 /\ cli.key_examined)
    /\ (CliEnded /\ ~ProjectionsResolvable) =>
          (cli.pc = "exited" /\ cli.exit = 1 /\ ~cli.key_examined /\ NothingDone)
    /\ cli.exit = 2 => ProjectionsResolvable

\* a run without a projections file and without a key has returned 1
C30_Witness ==
    /\ cli.pc = "exited" /\ cli.exit = 1
    /\ ~ProjectionsResolvable
    /\ cli.env.ODDS_API_KEY = None
    /\ ~cli.key_examined

\* a run with a projections file and an empty key has returned 2
C30_WitnessKey ==
    /\ cli.pc = "exited" /\ cli.exit = 2
    /\ ProjectionsResolvable
    /\ cli.env.ODDS_API_KEY = StrCell(<<>>)
    /\ NothingDone

====
